---- MODULE Spec2Model ----
(***************************************************************************)
(* A model of the veriT proof checker: the proof walker                    *)
(* (ProofChecker::check), the rule registry (get_rule) and the rules of    *)
(* the rule library.                                                       *)
(*                                                                         *)
(* A term is a record [kind, name, args]:                                  *)
(*   kind = "var" : Term::Terminal(Terminal::Var(name, sort)), args = <<>> *)
(*   kind = "op"  : Term::Op(name, args)                                   *)
(*   kind = "app" : Term::App(f, f_args), args = <<f>> \o f_args           *)
(* Terms are hash-consed by the parser, so handle equality (ByRefRc) and   *)
(* structural equality (Term) coincide; both are TLA+ equality here.       *)
(* A rule returns Option<()>: "some", "none", or "panic" when the rule     *)
(* aborts (an index out of range, unreachable!()).                         *)
(***************************************************************************)
EXTENDS Integers, Sequences, FiniteSets, TLC

VARIABLES
    pc,              \* control point of the running operation
    proof,           \* ProofChecker.proof.0: the sequence of commands
    idx,             \* check: 0-based index of the command being visited
    verdict,         \* check: the returned bool, "true" or "false" ("unset" before)
    invoked,         \* check: the rule invocations made so far, in order
    skip_unknown_rules, \* check: the flag lib.rs hands to ProofChecker::new
    clause,          \* the conclusion clause handed to the rule
    premises,        \* the resolved premise commands handed to the rule
    result,          \* the rule's Option<()>: "pending", "some", "none", "panic"
    working_clause,  \* resolution: HashSet<(u32, &Term)>
    cmd_i,           \* resolution: position in `premises` (1-based)
    term_j           \* resolution: position in the premise clause (1-based)

vars == <<pc, proof, idx, verdict, invoked, skip_unknown_rules, clause, premises,
          result, working_clause, cmd_i, term_j>>

walkerVars == <<proof, idx, verdict, invoked, skip_unknown_rules>>
ruleVars == <<clause, premises, result>>
resolutionVars == <<working_clause, cmd_i, term_j>>

-----------------------------------------------------------------------------
(* Terms *)

Var(n) == [kind |-> "var", name |-> n, args |-> <<>>]
Op(o, as) == [kind |-> "op", name |-> o, args |-> as]
App(f, as) == [kind |-> "app", name |-> "", args |-> <<f>> \o as]

Not(t) == Op("not", <<t>>)
Eq(t, u) == Op("=", <<t, u>>)
Neq(t, u) == Not(Eq(t, u))

p == Var("p")
q == Var("q")
r == Var("r")
a == Var("a")
b == Var("b")
c == Var("c")
f == Var("f")
g == Var("g")
false == Var("false")

IsOp(t, o) == t.kind = "op" /\ t.name = o

\* match_op!((not t) = term), match_op!((= t u) = term), match_op!((ite a b c) = term):
\* the operator with exactly that many arguments.
IsNot(t) == IsOp(t, "not") /\ Len(t.args) = 1
IsEq(t) == IsOp(t, "=") /\ Len(t.args) = 2
IsIte(t) == IsOp(t, "ite") /\ Len(t.args) = 3
\* match_op!((not (= t u)) = term)
IsNeq(t) == IsNot(t) /\ IsEq(t.args[1])
NeqPair(t) == <<t.args[1].args[1], t.args[1].args[2]>>
EqPair(t) == <<t.args[1], t.args[2]>>

\* Term::sort: the declared sort of a variable (p, q, r, s and the boolean literals
\* are Bool, every other symbol has the uninterpreted sort T); Bool for the
\* logical operators; the sort of a branch for ite.
BoolVars == {"p", "q", "r", "s", "false", "true"}
RECURSIVE sort(_)
sort(t) ==
    IF t.kind = "var" THEN (IF t.name \in BoolVars THEN "Bool" ELSE "T")
    ELSE IF t.kind = "op" /\ t.name \in {"not", "and", "or", "=", "distinct", "=>"}
         THEN "Bool"
    ELSE IF t.kind = "op" /\ t.name = "ite" /\ Len(t.args) = 3 THEN sort(t.args[2])
    ELSE "T"

BOOL_SORT == "Bool"

(* Commands *)

\* ProofCommand::Assume(term) and ProofCommand::Step {clause, rule, premises, args}.
\* An Assume keeps its term as a one-element `clause`; `premises` holds the
\* 0-based indices into the proof.
Assume(t) ==
    [kind |-> "assume", clause |-> <<t>>, rule |-> "", premises |-> <<>>, args |-> <<>>]
StepArgs(cl, rl, pr, ar) ==
    [kind |-> "step", clause |-> cl, rule |-> rl, premises |-> pr, args |-> ar]
Step(cl, rl, pr) == StepArgs(cl, rl, pr, <<>>)

Some == "some"
None == "none"
Panic == "panic"

to_option(bool) == IF bool THEN Some ELSE None

\* Mutant of get_single_term_from_command: the first term of any step clause.
get_single_term_from_command_FirstTerm(command) ==
    IF command.kind = "assume" THEN <<TRUE, command.clause[1]>>
    ELSE IF Len(command.clause) >= 1 THEN <<TRUE, command.clause[1]>>
    ELSE <<FALSE, false>>

\* get_single_term_from_command: <<TRUE, term>> or <<FALSE, _>> for None
get_single_term_from_command(command) ==
    IF command.kind = "assume" THEN <<TRUE, command.clause[1]>>
    ELSE IF Len(command.clause) = 1 THEN <<TRUE, command.clause[1]>>
    ELSE <<FALSE, false>>

Min(S) == CHOOSE x \in S : \A y \in S : x <= y

-----------------------------------------------------------------------------
(* The rules (mod rules). Each takes the conclusion clause, the resolved     *)
(* premise commands and the proof arguments.                                 *)

not_not(cl, prem, args) ==
    IF Len(cl) # 2 THEN None
    ELSE IF ~(IsNot(cl[1]) /\ IsNot(cl[1].args[1]) /\ IsNot(cl[1].args[1].args[1]))
    THEN None
    ELSE to_option(cl[1].args[1].args[1].args[1] = cl[2])

equiv_pos1(cl, prem, args) ==
    IF Len(cl) # 3 THEN None
    ELSE IF ~IsNeq(cl[1]) THEN None
    ELSE LET phi_1 == NeqPair(cl[1])[1]
             phi_2 == NeqPair(cl[1])[2]
         IN  IF phi_1 # cl[2] THEN None
             ELSE IF ~IsNot(cl[3]) THEN None
             ELSE to_option(phi_2 = cl[3].args[1])

equiv_pos2(cl, prem, args) ==
    IF Len(cl) # 3 THEN None
    ELSE IF ~IsNeq(cl[1]) THEN None
    ELSE LET phi_1 == NeqPair(cl[1])[1]
             phi_2 == NeqPair(cl[1])[2]
         IN  IF ~IsNot(cl[2]) THEN None
             ELSE to_option(phi_1 = cl[2].args[1] /\ phi_2 = cl[3])

eq_reflexive(cl, prem, args) ==
    IF Len(cl) = 1
    THEN (IF ~IsEq(cl[1]) THEN None ELSE to_option(cl[1].args[1] = cl[1].args[2]))
    ELSE None

\* premises.swap(0, index) on a 1-based sequence
swap(s, i, j) == [k \in 1..Len(s) |-> IF k = i THEN s[j] ELSE IF k = j THEN s[i] ELSE s[k]]

\* Mutant of find_chain: an equality matches only with its first side.
RECURSIVE find_chain_NoFlip(_, _)
find_chain_NoFlip(conclusion, prem) ==
    IF conclusion[1] = conclusion[2] THEN Some
    ELSE LET found == {i \in 1..Len(prem) : prem[i][1] = conclusion[1]}
         IN  IF found = {} THEN None
             ELSE LET index == Min(found)
                  IN  find_chain_NoFlip(<<prem[index][2], conclusion[2]>>,
                                        Tail(swap(prem, 1, index)))

\* Mutant of find_chain: the found equality is not swapped to the front, the
\* first premise is dropped in its place.
RECURSIVE find_chain_NoSwap(_, _)
find_chain_NoSwap(conclusion, prem) ==
    IF conclusion[1] = conclusion[2] THEN Some
    ELSE LET found == {i \in 1..Len(prem) :
                          prem[i][1] = conclusion[1] \/ prem[i][2] = conclusion[1]}
         IN  IF found = {} THEN None
             ELSE LET index == Min(found)
                      eq == IF prem[index][1] = conclusion[1]
                            THEN prem[index]
                            ELSE <<prem[index][2], prem[index][1]>>
                  IN  find_chain_NoSwap(<<eq[2], conclusion[2]>>, Tail(prem))

\* find_chain: conclusion is a pair <<t, u>>, prem a sequence of pairs.
RECURSIVE find_chain(_, _)
find_chain(conclusion, prem) ==
    IF conclusion[1] = conclusion[2] THEN Some
    ELSE LET found == {i \in 1..Len(prem) :
                          prem[i][1] = conclusion[1] \/ prem[i][2] = conclusion[1]}
         IN  IF found = {} THEN None
             ELSE LET index == Min(found)
                      eq == IF prem[index][1] = conclusion[1]
                            THEN prem[index]
                            ELSE <<prem[index][2], prem[index][1]>>
                  IN  find_chain(<<eq[2], conclusion[2]>>, Tail(swap(prem, 1, index)))

eq_transitive(cl, prem, args) ==
    IF Len(cl) < 3 THEN None
    ELSE LET last_term == cl[Len(cl)]
         IN  IF ~IsEq(last_term) THEN None
             ELSE IF \E i \in 1..(Len(cl) - 1) : ~IsNeq(cl[i]) THEN None
             ELSE find_chain(EqPair(last_term),
                             [i \in 1..(Len(cl) - 1) |-> NeqPair(cl[i])])

\* The loop of eq_congruent over the argument positions, from position i on.
\* g_args[i] is read without a length check: it aborts when g has fewer arguments.
RECURSIVE eq_congruent_args(_, _, _, _, _)
eq_congruent_args(f_args, g_args, ts, us, i) ==
    IF i > Len(ts) THEN Some
    ELSE IF i > Len(g_args) THEN Panic
    ELSE LET expected == <<f_args[i], g_args[i]>>
         IN  IF expected # <<ts[i], us[i]>> /\ expected # <<us[i], ts[i]>> THEN None
             ELSE eq_congruent_args(f_args, g_args, ts, us, i + 1)

eq_congruent(cl, prem, args) ==
    IF Len(cl) < 2 THEN None
    ELSE IF \E i \in 1..(Len(cl) - 1) : ~IsNeq(cl[i]) THEN None
    ELSE LET ts == [i \in 1..(Len(cl) - 1) |-> NeqPair(cl[i])[1]]
             us == [i \in 1..(Len(cl) - 1) |-> NeqPair(cl[i])[2]]
             last == cl[Len(cl)]
         IN  IF ~IsEq(last) THEN None
             ELSE IF ~(last.args[1].kind = "app" /\ last.args[2].kind = "app") THEN None
             ELSE LET f_args == Tail(last.args[1].args)
                      g_args == Tail(last.args[2].args)
                  IN  IF Head(last.args[1].args) # Head(last.args[2].args)
                         \/ Len(f_args) # Len(ts)
                      THEN None
                      ELSE eq_congruent_args(f_args, g_args, ts, us, 1)

\* The nested loops of distinct_elim over the pairs (i, j), i < j, with the
\* running index k into the conjunction `got` (all 1-based here).
RECURSIVE distinct_elim_pairs(_, _, _, _, _)
distinct_elim_pairs(dargs, got, i, j, k) ==
    IF i > Len(dargs) THEN Some
    ELSE IF j > Len(dargs) THEN distinct_elim_pairs(dargs, got, i + 1, i + 2, k)
    ELSE IF k > Len(got) THEN Panic
    ELSE IF ~IsNeq(got[k]) THEN None
    ELSE IF NeqPair(got[k]) # <<dargs[i], dargs[j]>>
            /\ NeqPair(got[k]) # <<dargs[j], dargs[i]>> THEN None
    ELSE distinct_elim_pairs(dargs, got, i, j + 1, k + 1)

\* Mutant of distinct_elim: Boolean arguments are expanded like any others.
distinct_elim_NoBoolCase(cl, prem, args) ==
    IF Len(cl) # 1 THEN None
    ELSE IF ~IsEq(cl[1]) THEN None
    ELSE LET distinct_term == cl[1].args[1]
             second_term == cl[1].args[2]
         IN  IF ~IsOp(distinct_term, "distinct") THEN None
             ELSE LET dargs == distinct_term.args
                  IN  IF Len(dargs) < 2 THEN Panic
                      ELSE IF Len(dargs) = 2 THEN
                          (IF ~IsNeq(second_term) THEN None
                           ELSE to_option(NeqPair(second_term) = <<dargs[1], dargs[2]>>
                                          \/ NeqPair(second_term) = <<dargs[2], dargs[1]>>))
                      ELSE IF ~IsOp(second_term, "and") THEN None
                      ELSE distinct_elim_pairs(dargs, second_term.args, 1, 2, 1)

distinct_elim(cl, prem, args) ==
    IF Len(cl) # 1 THEN None
    ELSE IF ~IsEq(cl[1]) THEN None
    ELSE LET distinct_term == cl[1].args[1]
             second_term == cl[1].args[2]
         IN  IF ~IsOp(distinct_term, "distinct") THEN None
             ELSE LET dargs == distinct_term.args
                  IN  IF Len(dargs) < 2 THEN Panic
                      ELSE IF Len(dargs) = 2 THEN
                          (IF ~IsNeq(second_term) THEN None
                           ELSE to_option(NeqPair(second_term) = <<dargs[1], dargs[2]>>
                                          \/ NeqPair(second_term) = <<dargs[2], dargs[1]>>))
                      ELSE IF sort(dargs[1]) = BOOL_SORT THEN
                          to_option(second_term.kind = "var" /\ second_term.name = "false")
                      ELSE IF ~IsOp(second_term, "and") THEN None
                      ELSE distinct_elim_pairs(dargs, second_term.args, 1, 2, 1)

\* resolution::remove_negations: <<number of leading negations, inner term>>
RECURSIVE remove_negations(_)
remove_negations(term) ==
    IF IsNot(term)
    THEN LET rest == remove_negations(term.args[1]) IN <<rest[1] + 1, rest[2]>>
    ELSE <<0, term>>

\* Mutant of resolve_term: (n + 1, inner) is tried before (n - 1, inner).
resolve_term_HigherFirst(working, term) ==
    LET n == remove_negations(term)[1]
        inner == remove_negations(term)[2]
    IN  IF <<n + 1, inner>> \in working THEN working \ {<<n + 1, inner>>}
        ELSE IF n > 0 /\ <<n - 1, inner>> \in working THEN working \ {<<n - 1, inner>>}
        ELSE working \cup {<<n, inner>>}

\* Mutant of resolve_term: (n + 1, inner) is not looked for.
resolve_term_LowerOnly(working, term) ==
    LET n == remove_negations(term)[1]
        inner == remove_negations(term)[2]
    IN  IF n > 0 /\ <<n - 1, inner>> \in working THEN working \ {<<n - 1, inner>>}
        ELSE working \cup {<<n, inner>>}

\* The body of resolution's inner loop for one premise term: the working
\* clause after the term has been processed.
resolve_term(working, term) ==
    LET n == remove_negations(term)[1]
        inner == remove_negations(term)[2]
    IN  IF n > 0 /\ <<n - 1, inner>> \in working THEN working \ {<<n - 1, inner>>}
        ELSE IF <<n + 1, inner>> \in working THEN working \ {<<n + 1, inner>>}
        ELSE working \cup {<<n, inner>>}

\* The premise clause of a command: an "assume" is a clause with a single term.
premise_clause_of(command) == command.clause

\* The inner loop over the terms of one premise clause, from position j on.
RECURSIVE resolve_clause(_, _, _)
resolve_clause(working, premise_clause, j) ==
    IF j > Len(premise_clause) THEN working
    ELSE resolve_clause(resolve_term(working, premise_clause[j]), premise_clause, j + 1)

\* The outer loop over the premise commands, from position i on.
RECURSIVE resolve_premises(_, _, _)
resolve_premises(working, prem, i) ==
    IF i > Len(prem) THEN working
    ELSE resolve_premises(resolve_clause(working, premise_clause_of(prem[i]), 1),
                          prem, i + 1)

\* The conclusion clause collected into a HashSet of (n, inner) pairs.
conclusion_set(cl) == {remove_negations(cl[i]) : i \in 1..Len(cl)}

resolution_verdict(working, cl) == to_option(working = conclusion_set(cl))

resolution(cl, prem, args) == resolution_verdict(resolve_premises({}, prem, 1), cl)

and(cl, prem, args) ==
    IF Len(prem) # 1 \/ Len(cl) # 1 THEN None
    ELSE LET and_term == get_single_term_from_command(prem[1])
         IN  IF ~and_term[1] THEN None
             ELSE IF ~IsOp(and_term[2], "and") THEN None
             ELSE to_option(\E i \in 1..Len(and_term[2].args) : and_term[2].args[i] = cl[1])

or(cl, prem, args) ==
    IF Len(prem) # 1 THEN None
    ELSE LET or_term == get_single_term_from_command(prem[1])
         IN  IF ~or_term[1] THEN None
             ELSE IF ~IsOp(or_term[2], "or") THEN None
             ELSE to_option(or_term[2].args = cl)

ite1(cl, prem, args) ==
    IF Len(prem) # 1 \/ Len(cl) # 2 THEN None
    ELSE LET premise_term == get_single_term_from_command(prem[1])
         IN  IF ~premise_term[1] THEN None
             ELSE IF ~IsIte(premise_term[2]) THEN None
             ELSE to_option(premise_term[2].args[1] = cl[1]
                            /\ premise_term[2].args[3] = cl[2])

ite2(cl, prem, args) ==
    IF Len(prem) # 1 \/ Len(cl) # 2 THEN None
    ELSE LET premise_term == get_single_term_from_command(prem[1])
         IN  IF ~premise_term[1] THEN None
             ELSE IF ~IsIte(premise_term[2]) THEN None
             ELSE IF ~IsNot(cl[1]) THEN None
             ELSE to_option(premise_term[2].args[1] = cl[1].args[1]
                            /\ premise_term[2].args[2] = cl[2])

\* Mutant of contraction_loop: only the previous term is remembered.
RECURSIVE contraction_loop_PreviousOnly(_, _, _, _, _)
contraction_loop_PreviousOnly(premise_clause, cl, i, encountered, clause_iter) ==
    IF i > Len(premise_clause) THEN to_option(clause_iter = Len(cl))
    ELSE LET t == premise_clause[i]
             is_new_term == t \notin encountered
         IN  IF is_new_term
             THEN (IF clause_iter < Len(cl) /\ cl[clause_iter + 1] = t
                   THEN contraction_loop_PreviousOnly(premise_clause, cl, i + 1,
                                                      {t}, clause_iter + 1)
                   ELSE None)
             ELSE contraction_loop_PreviousOnly(premise_clause, cl, i + 1,
                                                encountered, clause_iter)

\* Mutant of contraction_loop: the conclusion iterator is not checked at the end.
RECURSIVE contraction_loop_NoEndCheck(_, _, _, _, _)
contraction_loop_NoEndCheck(premise_clause, cl, i, encountered, clause_iter) ==
    IF i > Len(premise_clause) THEN Some
    ELSE LET t == premise_clause[i]
             is_new_term == t \notin encountered
         IN  IF is_new_term
             THEN (IF clause_iter < Len(cl) /\ cl[clause_iter + 1] = t
                   THEN contraction_loop_NoEndCheck(premise_clause, cl, i + 1,
                                                    encountered \cup {t}, clause_iter + 1)
                   ELSE None)
             ELSE contraction_loop_NoEndCheck(premise_clause, cl, i + 1,
                                              encountered, clause_iter)

\* The loop of contraction over the premise clause, from position i on, with
\* the set of terms encountered and the number of conclusion terms consumed.
RECURSIVE contraction_loop(_, _, _, _, _)
contraction_loop(premise_clause, cl, i, encountered, clause_iter) ==
    IF i > Len(premise_clause) THEN to_option(clause_iter = Len(cl))
    ELSE LET t == premise_clause[i]
             is_new_term == t \notin encountered
         IN  IF is_new_term
             THEN (IF clause_iter < Len(cl) /\ cl[clause_iter + 1] = t
                   THEN contraction_loop(premise_clause, cl, i + 1,
                                         encountered \cup {t}, clause_iter + 1)
                   ELSE None)
             ELSE contraction_loop(premise_clause, cl, i + 1, encountered, clause_iter)

contraction(cl, prem, args) ==
    IF Len(prem) # 1 THEN None
    ELSE IF prem[1].kind # "step" THEN None
    ELSE contraction_loop(prem[1].clause, cl, 1, {}, 0)

\* Term::subterms: the term and its subterms in pre-order, shared nodes revisited.
RECURSIVE subterms(_)
RECURSIVE subterms_of_all(_, _)
subterms_of_all(ts, i) ==
    IF i > Len(ts) THEN <<>> ELSE subterms(ts[i]) \o subterms_of_all(ts, i + 1)
subterms(t) == <<t>> \o subterms_of_all(t.args, 1)

\* The zip loop of ite_intro over (s_i, u_i), from position i on.
RECURSIVE ite_intro_loop(_, _, _)
ite_intro_loop(ite_terms, us, i) ==
    IF i > Len(ite_terms) THEN Some
    ELSE LET u_i == us[i + 1]
             s_i == ite_terms[i]
         IN  IF ~(IsIte(u_i) /\ IsEq(u_i.args[2]) /\ IsEq(u_i.args[3])) THEN None
             ELSE LET cond == u_i.args[1]
                      r1 == u_i.args[2].args[1]
                      s1 == u_i.args[2].args[2]
                      r2 == u_i.args[3].args[1]
                      s2 == u_i.args[3].args[2]
                      is_valid == <<cond, r1, r2>> = s_i.args /\ s1 = s2
                                  /\ IsIte(s1) /\ s1.args = s_i.args
                  IN  IF ~is_valid THEN None ELSE ite_intro_loop(ite_terms, us, i + 1)

ite_intro(cl, prem, args) ==
    IF Len(cl) # 1 THEN None
    ELSE IF ~IsEq(cl[1]) THEN None
    ELSE LET root_term == cl[1].args[1]
             us == cl[1].args[2]
             ite_terms == SelectSeq(subterms(root_term), IsIte)
         IN  IF ~IsOp(us, "and") THEN None
             ELSE IF Len(ite_terms) # Len(us.args) - 1 \/ us.args[1] # root_term THEN None
             ELSE ite_intro_loop(ite_terms, us.args, 1)

-----------------------------------------------------------------------------
(* The rule registry *)

\* Mutant of get_rule: the aliases are not in the table.
get_rule_NoAliases(rule_name) ==
    CASE rule_name = "not_not" -> "not_not"
      [] rule_name = "equiv_pos1" -> "equiv_pos1"
      [] rule_name = "equiv_pos2" -> "equiv_pos2"
      [] rule_name = "eq_reflexive" -> "eq_reflexive"
      [] rule_name = "eq_transitive" -> "eq_transitive"
      [] rule_name = "eq_congruent" -> "eq_congruent"
      [] rule_name = "distinct_elim" -> "distinct_elim"
      [] rule_name = "resolution" -> "resolution"
      [] rule_name = "and" -> "and"
      [] rule_name = "or" -> "or"
      [] rule_name = "ite1" -> "ite1"
      [] rule_name = "ite2" -> "ite2"
      [] rule_name = "ite_intro" -> "ite_intro"
      [] rule_name = "contraction" -> "contraction"
      [] OTHER -> ""

\* ProofChecker::get_rule: the rule of a name ("" for None).
get_rule(rule_name) ==
    CASE rule_name = "not_not" -> "not_not"
      [] rule_name = "equiv_pos1" -> "equiv_pos1"
      [] rule_name = "equiv_pos2" -> "equiv_pos2"
      [] rule_name = "eq_reflexive" -> "eq_reflexive"
      [] rule_name = "eq_transitive" -> "eq_transitive"
      [] rule_name \in {"eq_congruent", "eq_congruent_pred"} -> "eq_congruent"
      [] rule_name = "distinct_elim" -> "distinct_elim"
      [] rule_name \in {"th_resolution", "resolution"} -> "resolution"
      [] rule_name = "and" -> "and"
      [] rule_name = "or" -> "or"
      [] rule_name = "ite1" -> "ite1"
      [] rule_name = "ite2" -> "ite2"
      [] rule_name = "ite_intro" -> "ite_intro"
      [] rule_name = "contraction" -> "contraction"
      [] OTHER -> ""

\* rule(&clause, premises, &args) for the rule get_rule returned
apply_rule(rule, cl, prem, args) ==
    CASE rule = "not_not" -> not_not(cl, prem, args)
      [] rule = "equiv_pos1" -> equiv_pos1(cl, prem, args)
      [] rule = "equiv_pos2" -> equiv_pos2(cl, prem, args)
      [] rule = "eq_reflexive" -> eq_reflexive(cl, prem, args)
      [] rule = "eq_transitive" -> eq_transitive(cl, prem, args)
      [] rule = "eq_congruent" -> eq_congruent(cl, prem, args)
      [] rule = "distinct_elim" -> distinct_elim(cl, prem, args)
      [] rule = "resolution" -> resolution(cl, prem, args)
      [] rule = "and" -> and(cl, prem, args)
      [] rule = "or" -> or(cl, prem, args)
      [] rule = "ite1" -> ite1(cl, prem, args)
      [] rule = "ite2" -> ite2(cl, prem, args)
      [] rule = "ite_intro" -> ite_intro(cl, prem, args)
      [] rule = "contraction" -> contraction(cl, prem, args)

-----------------------------------------------------------------------------
(* The proof walker: ProofChecker::check, one action per loop iteration      *)

MaxProofLen == 3

SeqsUpTo(S, n) == UNION {[1..k -> S] : k \in 0..n}

distinct_abc == Op("distinct", <<a, b, c>>)

\* The commands the proofs are made of. Premise indices are 0-based; the index
\* MaxProofLen is outside every proof at this bound.
WalkerCommands ==
    { Assume(Op("or", <<p, q>>)),
      Assume(Not(p)),
      Step(<<p, q>>, "or", <<0>>),
      Step(<<q>>, "resolution", <<0, 1>>),
      Step(<<p, q>>, "th_resolution", <<1>>),
      Step(<<Eq(a, a)>>, "eq_reflexive", <<>>),
      Step(<<Eq(a, b)>>, "eq_reflexive", <<>>),
      Step(<<p>>, "trust", <<>>),
      Step(<<q>>, "resolution", <<MaxProofLen>>),
      Step(<<Eq(distinct_abc, Op("and", <<Neq(a, b)>>))>>, "distinct_elim", <<>>) }

IdleRule ==
    /\ clause = <<>>
    /\ premises = <<>>
    /\ result = "pending"
    /\ working_clause = {}
    /\ cmd_i = 0
    /\ term_j = 0

Init ==
    /\ pc = "check"
    /\ proof \in SeqsUpTo(WalkerCommands, MaxProofLen)
    /\ idx = 0
    /\ verdict = "unset"
    /\ invoked = <<>>
    /\ skip_unknown_rules = FALSE
    /\ IdleRule

\* The command `for step in &self.proof.0` is at.
current == proof[idx + 1]

\* premises.iter().map(|&i| &self.proof.0[i]): defined when every index is in range
InRange(command, prf) == \A i \in 1..Len(command.premises) : command.premises[i] < Len(prf)
resolve(command, prf) == [i \in 1..Len(command.premises) |-> prf[command.premises[i] + 1]]

\* The outcome of the rule call of line 27 for a step command of proof prf.
rule_outcome(command, prf) ==
    apply_rule(get_rule(command.rule), command.clause, resolve(command, prf), command.args)

\* An "assume" command: the `if let` does not match, the loop goes on.
CheckAssume ==
    /\ pc = "check" /\ idx < Len(proof)
    /\ current.kind = "assume"
    /\ idx' = idx + 1
    /\ UNCHANGED <<pc, proof, verdict, invoked, skip_unknown_rules, ruleVars, resolutionVars>>

\* Mutant of CheckUnknownRule: an unknown rule is reported as a rejection.
CheckUnknownRule_Rejects ==
    /\ pc = "check" /\ idx < Len(proof)
    /\ current.kind = "step"
    /\ get_rule(current.rule) = ""
    /\ ~skip_unknown_rules
    /\ pc' = "done"
    /\ verdict' = "false"
    /\ UNCHANGED <<proof, idx, invoked, skip_unknown_rules, ruleVars, resolutionVars>>

\* get_rule returns None: unwrap_or_else panics. Reached with the flag off
\* only; the checker of this file has no flag and always takes this branch.
CheckUnknownRule ==
    /\ pc = "check" /\ idx < Len(proof)
    /\ current.kind = "step"
    /\ get_rule(current.rule) = ""
    /\ ~skip_unknown_rules
    /\ pc' = "panic"
    /\ UNCHANGED <<proof, idx, verdict, invoked, skip_unknown_rules, ruleVars, resolutionVars>>

\* A premise index outside the proof: the indexing self.proof.0[i] panics.
CheckPremiseOutOfRange ==
    /\ pc = "check" /\ idx < Len(proof)
    /\ current.kind = "step"
    /\ get_rule(current.rule) # ""
    /\ ~InRange(current, proof)
    /\ pc' = "panic"
    /\ UNCHANGED <<proof, idx, verdict, invoked, skip_unknown_rules, ruleVars, resolutionVars>>

CallRule ==
    /\ pc = "check" /\ idx < Len(proof)
    /\ current.kind = "step"
    /\ get_rule(current.rule) # ""
    /\ InRange(current, proof)
    /\ invoked' = Append(invoked, [index |-> idx, premises |-> current.premises,
                                   outcome |-> rule_outcome(current, proof)])

\* The rule returns Some(()): the loop goes on.
CheckStepAccepted ==
    /\ CallRule
    /\ rule_outcome(current, proof) = Some
    /\ idx' = idx + 1
    /\ UNCHANGED <<pc, proof, verdict, skip_unknown_rules, ruleVars, resolutionVars>>

\* Mutant of CheckStepRejected: a rejected step does not end the walk.
CheckStepRejected_Continues ==
    /\ CallRule
    /\ rule_outcome(current, proof) = None
    /\ idx' = idx + 1
    /\ UNCHANGED <<pc, proof, verdict, skip_unknown_rules, ruleVars, resolutionVars>>

\* Mutant of CheckStepRejected: false is noted but the loop is not left.
CheckStepRejected_KeepsWalking ==
    /\ CallRule
    /\ rule_outcome(current, proof) = None
    /\ idx' = idx + 1
    /\ verdict' = "false"
    /\ UNCHANGED <<pc, proof, skip_unknown_rules, ruleVars, resolutionVars>>

\* The rule returns None: check returns false.
CheckStepRejected ==
    /\ CallRule
    /\ rule_outcome(current, proof) = None
    /\ pc' = "done"
    /\ verdict' = "false"
    /\ UNCHANGED <<proof, idx, skip_unknown_rules, ruleVars, resolutionVars>>

\* The rule itself panics.
CheckStepPanics ==
    /\ CallRule
    /\ rule_outcome(current, proof) = Panic
    /\ pc' = "panic"
    /\ UNCHANGED <<proof, idx, verdict, skip_unknown_rules, ruleVars, resolutionVars>>

\* The loop is over: check returns true.
CheckReturnTrue ==
    /\ pc = "check" /\ idx = Len(proof)
    /\ pc' = "done"
    /\ verdict' = "true"
    /\ UNCHANGED <<proof, idx, invoked, skip_unknown_rules, ruleVars, resolutionVars>>

Next ==
    \/ CheckAssume
    \/ CheckUnknownRule
    \/ CheckPremiseOutOfRange
    \/ CheckStepAccepted
    \/ CheckStepRejected
    \/ CheckStepPanics
    \/ CheckReturnTrue

Spec == Init /\ [][Next]_vars

-----------------------------------------------------------------------------
(* Claims about the proof walker *)

StepIndices(prf) == {k \in 1..Len(prf) : prf[k].kind = "step"}

\* Every rule name of the proof is registered and every premise index is in range.
WellFormedProof(prf) ==
    \A k \in StepIndices(prf) : get_rule(prf[k].rule) # "" /\ InRange(prf[k], prf)

\* The rule of the step at position k accepts (its clause, its resolved premises, its args).
StepAccepts(prf, k) == rule_outcome(prf[k], prf) = Some

\* C1: for a proof whose rule names are all registered and whose premise
\* indices are all in range, check returns true if and only if the rule of
\* every Step command accepts; an Assume command is never the cause of a false
\* verdict (the command check stopped at is a Step).
C1_CheckTrueIffEveryStepAccepts ==
    (pc # "check" /\ WellFormedProof(proof)) =>
        /\ (pc = "done" /\ verdict = "true") <=>
               (\A k \in StepIndices(proof) : StepAccepts(proof, k))
        /\ verdict = "false" => (idx < Len(proof) /\ proof[idx + 1].kind = "step")

\* A proof of three commands with an Assume and accepted Steps was checked to the end.
C1_Witness ==
    /\ pc = "done" /\ verdict = "true"
    /\ Len(proof) = 3
    /\ \E k \in 1..3 : proof[k].kind = "assume"
    /\ Cardinality(StepIndices(proof)) >= 2

-----------------------------------------------------------------------------
(* The resolution rule, one action per premise term                          *)

MaxPremiseLiterals == 3
MaxConclusionLen == 2

IdleWalker ==
    /\ proof = <<>>
    /\ idx = 0
    /\ verdict = "unset"
    /\ invoked = <<>>
    /\ skip_unknown_rules = FALSE

\* The literals the premises and conclusions of resolution are made of.
ResolutionLiterals == {p, Not(p), Not(Not(p)), q}

\* The premise commands that hold the literals `lits`, cut into clauses after
\* the positions of `cuts`; a one-literal clause is an "assume" when
\* `assumes` is set and a "step" otherwise.
Segment(lits, from, to) == [k \in 1..(to - from + 1) |-> lits[from + k - 1]]
RECURSIVE CutIntoCommands(_, _, _, _)
CutIntoCommands(lits, cuts, assumes, from) ==
    IF from > Len(lits) THEN <<>>
    ELSE LET to == Min({k \in from..Len(lits) : k \in cuts \/ k = Len(lits)})
             cl == Segment(lits, from, to)
             command == IF Len(cl) = 1 /\ assumes THEN Assume(cl[1])
                        ELSE Step(cl, "or", <<>>)
         IN  <<command>> \o CutIntoCommands(lits, cuts, assumes, to + 1)

ResolutionPremises ==
    { CutIntoCommands(lits, cuts, assumes, 1) :
        <<lits, cuts, assumes>> \in
            { x \in SeqsUpTo(ResolutionLiterals, MaxPremiseLiterals)
                      \X (SUBSET (1..(MaxPremiseLiterals - 1))) \X BOOLEAN :
                /\ x[2] \subseteq 1..(Len(x[1]) - 1)
                /\ (x[3] => Len(x[1]) > 0) } }

ResolutionConclusions == SeqsUpTo(ResolutionLiterals, MaxConclusionLen)

\* The position of the next premise term at or after term j of command i.
RECURSIVE advance(_, _, _)
advance(prem, i, j) ==
    IF i > Len(prem) THEN <<i, 1>>
    ELSE IF j <= Len(premise_clause_of(prem[i])) THEN <<i, j>>
    ELSE advance(prem, i + 1, 1)

InitResolution ==
    /\ pc = "resolution"
    /\ premises \in ResolutionPremises
    /\ clause = <<>>
    /\ result = "pending"
    /\ working_clause = {}
    /\ cmd_i = advance(premises, 1, 1)[1]
    /\ term_j = advance(premises, 1, 1)[2]
    /\ IdleWalker

\* The premise term the loops are at.
current_term == premise_clause_of(premises[cmd_i])[term_j]

ResolveStep ==
    /\ pc = "resolution" /\ cmd_i <= Len(premises)
    /\ working_clause' = resolve_term(working_clause, current_term)
    /\ cmd_i' = advance(premises, cmd_i, term_j + 1)[1]
    /\ term_j' = advance(premises, cmd_i, term_j + 1)[2]
    /\ UNCHANGED <<pc, clause, premises, result, walkerVars>>

\* line 381: (n - 1, inner) is in the working clause and is removed
ResolveRemoveLower ==
    /\ ResolveStep
    /\ LET nt == remove_negations(current_term)
       IN  nt[1] > 0 /\ <<nt[1] - 1, nt[2]>> \in working_clause

\* line 383: (n + 1, inner) is in the working clause and is removed
ResolveRemoveHigher ==
    /\ ResolveStep
    /\ LET nt == remove_negations(current_term)
       IN  /\ ~(nt[1] > 0 /\ <<nt[1] - 1, nt[2]>> \in working_clause)
           /\ <<nt[1] + 1, nt[2]>> \in working_clause

\* line 385: neither is there, (n, inner) is inserted
ResolveInsert ==
    /\ ResolveStep
    /\ LET nt == remove_negations(current_term)
       IN  /\ ~(nt[1] > 0 /\ <<nt[1] - 1, nt[2]>> \in working_clause)
           /\ <<nt[1] + 1, nt[2]>> \notin working_clause

\* lines 391-397: the working clause is compared with the conclusion clause
ResolutionReturn ==
    /\ pc = "resolution" /\ cmd_i > Len(premises)
    /\ \E cl \in ResolutionConclusions :
          /\ clause' = cl
          /\ result' = resolution_verdict(working_clause, cl)
    /\ pc' = "done"
    /\ UNCHANGED <<premises, resolutionVars, walkerVars>>

NextResolution ==
    \/ ResolveRemoveLower
    \/ ResolveRemoveHigher
    \/ ResolveInsert
    \/ ResolutionReturn

SpecResolution == InitResolution /\ [][NextResolution]_vars

-----------------------------------------------------------------------------
(* Claims about resolution *)

\* The literals of the premises in premise order, an Assume counting as a
\* one-literal clause.
RECURSIVE PremiseLiterals(_)
PremiseLiterals(prem) ==
    IF prem = <<>> THEN <<>>
    ELSE (IF Head(prem).kind = "assume" THEN <<Head(prem).clause[1]>>
          ELSE Head(prem).clause) \o PremiseLiterals(Tail(prem))

\* A literal as (negation_count, core_term).
RECURSIVE NegationCount(_)
NegationCount(t) ==
    IF t.kind = "op" /\ t.name = "not" THEN 1 + NegationCount(t.args[1]) ELSE 0
RECURSIVE CoreTerm(_)
CoreTerm(t) == IF t.kind = "op" /\ t.name = "not" THEN CoreTerm(t.args[1]) ELSE t
AsPair(t) == <<NegationCount(t), CoreTerm(t)>>

\* The three-step rule for an incoming pair (n, t).
ThreeStepRule(W, n, t) ==
    CASE n > 0 /\ <<n - 1, t>> \in W -> W \ {<<n - 1, t>>}
      [] ~(n > 0 /\ <<n - 1, t>> \in W) /\ <<n + 1, t>> \in W -> W \ {<<n + 1, t>>}
      [] OTHER -> W \cup {<<n, t>>}

\* The working set after the first k literals of lits went through the rule.
FoldedPrefix(lits) ==
    LET W[k \in 0..Len(lits)] ==
            IF k = 0 THEN {}
            ELSE ThreeStepRule(W[k - 1], NegationCount(lits[k]), CoreTerm(lits[k]))
    IN  W

Folded(lits) == FoldedPrefix(lits)[Len(lits)]

HasRepeatedLiteral(cl) == \E i, j \in 1..Len(cl) : i < j /\ cl[i] = cl[j]

\* C3: resolution rejects every step whose conclusion clause contains the
\* same literal more than once.
C3_RepeatedLiteralConclusionRejected ==
    (pc = "done" /\ HasRepeatedLiteral(clause)) => result = None

-----------------------------------------------------------------------------
(* A rule without premises applied to a clause: eq_transitive                *)

MaxEqPremises == 3

IdleResolution ==
    /\ working_clause = {}
    /\ cmd_i = 0
    /\ term_j = 0

EqTerms == {a, b, c}

\* The literals before the last one: the negated equalities over EqTerms and
\* one literal that is no negated equality.
EqTransitiveFront == {Neq(t, u) : t, u \in EqTerms} \cup {Eq(a, b)}
\* The last literal: an equality over EqTerms, or a literal that is none.
EqTransitiveLast == {Eq(t, u) : t, u \in EqTerms} \cup {Neq(a, b), p}

EqTransitiveClauses ==
    {front \o <<last>> :
        front \in SeqsUpTo(EqTransitiveFront, MaxEqPremises), last \in EqTransitiveLast}

InitEqTransitive ==
    /\ pc = "eq_transitive"
    /\ clause \in EqTransitiveClauses
    /\ premises = <<>>
    /\ result = "pending"
    /\ IdleResolution
    /\ IdleWalker

ApplyEqTransitive ==
    /\ pc = "eq_transitive"
    /\ result' = eq_transitive(clause, premises, <<>>)
    /\ pc' = "done"
    /\ UNCHANGED <<clause, premises, resolutionVars, walkerVars>>

SpecEqTransitive == InitEqTransitive /\ [][ApplyEqTransitive]_vars

(* Claims about eq_transitive *)

\* The clause has at least 3 literals, its last literal is an equality and
\* every earlier one a negated equality.
EqTransitiveShape(cl) ==
    /\ Len(cl) >= 3
    /\ cl[Len(cl)].kind = "op" /\ cl[Len(cl)].name = "=" /\ Len(cl[Len(cl)].args) = 2
    /\ \A i \in 1..(Len(cl) - 1) :
          /\ cl[i].kind = "op" /\ cl[i].name = "not" /\ Len(cl[i].args) = 1
          /\ cl[i].args[1].kind = "op" /\ cl[i].args[1].name = "="
          /\ Len(cl[i].args[1].args) = 2

Sides(cl, i) == {cl[i].args[1].args[1], cl[i].args[1].args[2]}

\* The negated equalities at the positions `left` of cl can be ordered into a
\* chain from t to u that consumes each of them exactly once, in either direction.
RECURSIVE ChainThroughAll(_, _, _, _)
ChainThroughAll(cl, t, u, left) ==
    IF left = {} THEN t = u
    ELSE \E i \in left :
            /\ t \in Sides(cl, i)
            /\ \E v \in Sides(cl, i) :
                  /\ Sides(cl, i) = {t, v}
                  /\ ChainThroughAll(cl, v, u, left \ {i})

\* Some of the negated equalities of cl, each used at most once, form a chain
\* from t to u.
ChainThroughSome(cl, t, u) ==
    \E used \in SUBSET (1..(Len(cl) - 1)) : ChainThroughAll(cl, t, u, used)

ConclusionLeft(cl) == cl[Len(cl)].args[1]
ConclusionRight(cl) == cl[Len(cl)].args[2]

\* C4 as claimed: eq_transitive accepts if and only if the clause has the
\* shape and all n-1 negated equalities can be ordered into a chain from t to u
\* in which each of them is consumed exactly once.
C4_AcceptsIffChainThroughAll ==
    pc = "done" =>
        (result = Some <=>
            /\ EqTransitiveShape(clause)
            /\ ChainThroughAll(clause, ConclusionLeft(clause), ConclusionRight(clause),
                               1..(Len(clause) - 1)))

\* C4, amended: a clause without the shape is rejected; a clause with the
\* shape is accepted whenever all its negated equalities form a chain from t
\* to u, and is accepted only if some of them, each used at most once, do.
C4_AcceptsBetweenChainThroughAllAndSome ==
    pc = "done" =>
        /\ ~EqTransitiveShape(clause) => result = None
        /\ EqTransitiveShape(clause) =>
              /\ ChainThroughAll(clause, ConclusionLeft(clause), ConclusionRight(clause),
                                 1..(Len(clause) - 1)) => result = Some
              /\ result = Some =>
                    ChainThroughSome(clause, ConclusionLeft(clause), ConclusionRight(clause))
              /\ result \in {Some, None}

\* A chain of two negated equalities, the second one written backwards, was accepted.
C4_Witness ==
    /\ pc = "done" /\ result = Some
    /\ clause = <<Neq(a, b), Neq(c, b), Eq(a, c)>>

-----------------------------------------------------------------------------
(* eq_congruent applied to a clause                                          *)

MaxCongruentPremises == 2

f1 == Var("f-1")
f3 == Var("f-3")

CongruentTerms == {a, b}

\* The well-sorted applications: f-1 is unary, f and g are binary, f-3 ternary.
Applications ==
    {App(f1, <<t>>) : t \in CongruentTerms}
    \cup {App(h, <<t, u>>) : h \in {f, g}, t, u \in CongruentTerms}
    \cup {App(f3, <<t, u, v>>) : t, u, v \in CongruentTerms}

EqCongruentFront == {Neq(t, u) : t, u \in CongruentTerms} \cup {Eq(a, b)}
EqCongruentLast ==
    {Eq(s, t) : s, t \in Applications}
    \cup {Eq(Op("+", <<a, b>>), App(f, <<a, b>>)), Neq(App(f1, <<a>>), App(f1, <<b>>))}

EqCongruentClauses ==
    {front \o <<last>> :
        front \in SeqsUpTo(EqCongruentFront, MaxCongruentPremises),
        last \in EqCongruentLast}

InitEqCongruent ==
    /\ pc = "eq_congruent"
    /\ clause \in EqCongruentClauses
    /\ premises = <<>>
    /\ result = "pending"
    /\ IdleResolution
    /\ IdleWalker

\* The step is checked under either of the two names of the rule.
ApplyEqCongruent ==
    /\ pc = "eq_congruent"
    /\ \E rule_name \in {"eq_congruent", "eq_congruent_pred"} :
          result' = apply_rule(get_rule(rule_name), clause, premises, <<>>)
    /\ pc' = "done"
    /\ UNCHANGED <<clause, premises, resolutionVars, walkerVars>>

SpecEqCongruent == InitEqCongruent /\ [][ApplyEqCongruent]_vars

(* Claims about eq_congruent *)

IsNegatedEquality(t) ==
    /\ t.kind = "op" /\ t.name = "not" /\ Len(t.args) = 1
    /\ t.args[1].kind = "op" /\ t.args[1].name = "=" /\ Len(t.args[1].args) = 2

\* Every literal but the last is a negated equality, the last is an equality
\* of two applications of the same function to as many arguments as there are
\* negated equalities.
EqCongruentShape(cl) ==
    /\ Len(cl) >= 2
    /\ \A i \in 1..(Len(cl) - 1) : IsNegatedEquality(cl[i])
    /\ LET last == cl[Len(cl)]
       IN  /\ last.kind = "op" /\ last.name = "=" /\ Len(last.args) = 2
           /\ last.args[1].kind = "app" /\ last.args[2].kind = "app"
           /\ last.args[1].args[1] = last.args[2].args[1]
           /\ Len(last.args[1].args) - 1 = Len(cl) - 1
           /\ Len(last.args[2].args) - 1 = Len(cl) - 1

\* t_i, u_i of the i-th negated equality; a_i, b_i of the two applications
T_(cl, i) == cl[i].args[1].args[1]
U_(cl, i) == cl[i].args[1].args[2]
A_(cl, i) == cl[Len(cl)].args[1].args[i + 1]
B_(cl, i) == cl[Len(cl)].args[2].args[i + 1]

Positional(cl) ==
    \A i \in 1..(Len(cl) - 1) :
        \/ <<A_(cl, i), B_(cl, i)>> = <<T_(cl, i), U_(cl, i)>>
        \/ <<A_(cl, i), B_(cl, i)>> = <<U_(cl, i), T_(cl, i)>>

\* The two applications are swapped as a whole against the negated equalities:
\* the first application holds the u_i, the second the t_i, and they differ.
SwappedAsAWhole(cl) ==
    /\ \A i \in 1..(Len(cl) - 1) : <<A_(cl, i), B_(cl, i)>> = <<U_(cl, i), T_(cl, i)>>
    /\ \E i \in 1..(Len(cl) - 1) : T_(cl, i) # U_(cl, i)

\* The first half of C5 alone: acceptance is the positional match, each pair
\* in either order.
EqCongruentAcceptsIffPositional ==
    pc = "done" => (result = Some <=> (EqCongruentShape(clause) /\ Positional(clause)))

\* C5: eq_congruent accepts if and only if the clause has the shape and every
\* argument pair (a_i, b_i) equals (t_i, u_i) or (u_i, t_i); the match is
\* positional, so a clause whose two applications are swapped as a whole is rejected.
C5_PositionalAndSwapRejected ==
    pc = "done" =>
        /\ result = Some <=> (EqCongruentShape(clause) /\ Positional(clause))
        /\ (EqCongruentShape(clause) /\ SwappedAsAWhole(clause)) => result = None

-----------------------------------------------------------------------------
(* The or rule applied to a clause and its premises                          *)

MaxOrPremises == 2
MaxOrClauseLen == 3

or_pq == Op("or", <<p, q>>)

OrCommands ==
    { Assume(or_pq),
      Assume(Op("or", <<q, p>>)),
      Assume(Op("or", <<p, q, r>>)),
      Assume(Op("and", <<p, q>>)),
      Assume(p),
      Step(<<or_pq>>, "resolution", <<>>),
      Step(<<or_pq, r>>, "resolution", <<>>),
      Step(<<>>, "resolution", <<>>) }

OrClauses == SeqsUpTo({p, q, r}, MaxOrClauseLen)

InitOr ==
    /\ pc = "or"
    /\ clause \in OrClauses
    /\ premises \in SeqsUpTo(OrCommands, MaxOrPremises)
    /\ result = "pending"
    /\ IdleResolution
    /\ IdleWalker

ApplyOr ==
    /\ pc = "or"
    /\ result' = apply_rule(get_rule("or"), clause, premises, <<>>)
    /\ pc' = "done"
    /\ UNCHANGED <<clause, premises, resolutionVars, walkerVars>>

SpecOr == InitOr /\ [][ApplyOr]_vars

(* Claims about or *)

\* The command is an Assume, or a Step with a one-literal clause, and its
\* single term is (or c_1 ... c_n).
HasSingleOrTerm(command) ==
    /\ command.kind = "assume" \/ (command.kind = "step" /\ Len(command.clause) = 1)
    /\ command.clause[1].kind = "op" /\ command.clause[1].name = "or"

\* C6: or accepts if and only if the step has exactly one premise, that
\* premise is an Assume or a Step with a one-literal clause whose single term
\* is (or c_1 ... c_n), and the conclusion clause is exactly [c_1, ..., c_n].
C6_OrAcceptsIffClauseIsTheDisjuncts ==
    pc = "done" =>
        (result = Some <=>
            /\ Len(premises) = 1
            /\ HasSingleOrTerm(premises[1])
            /\ Len(clause) = Len(premises[1].clause[1].args)
            /\ \A i \in 1..Len(clause) : clause[i] = premises[1].clause[1].args[i])

\* A Step premise with the one-literal clause [(or p q)] was unpacked into [p, q].
C6_Witness ==
    /\ pc = "done" /\ result = Some
    /\ Len(premises) = 1 /\ premises[1].kind = "step"
    /\ clause = <<p, q>>

-----------------------------------------------------------------------------
(* contraction applied to a clause and its premises                          *)

MaxContractionLen == 3

ContractionLiterals == {p, q, Not(p)}
ContractionClauses == SeqsUpTo(ContractionLiterals, MaxContractionLen)

\* One premise, a Step with any clause or an Assume; no premise; two premises.
ContractionPremises ==
    {<<Step(cl, "or", <<>>)>> : cl \in ContractionClauses}
    \cup {<<Assume(p)>>, <<>>, <<Step(<<p>>, "or", <<>>), Step(<<p>>, "or", <<>>)>>}

InitContraction ==
    /\ pc = "contraction"
    /\ clause \in ContractionClauses
    /\ premises \in ContractionPremises
    /\ result = "pending"
    /\ IdleResolution
    /\ IdleWalker

ApplyContraction ==
    /\ pc = "contraction"
    /\ result' = apply_rule(get_rule("contraction"), clause, premises, <<>>)
    /\ pc' = "done"
    /\ UNCHANGED <<clause, premises, resolutionVars, walkerVars>>

SpecContraction == InitContraction /\ [][ApplyContraction]_vars

(* Claims about contraction *)

\* The subsequence of s at the positions of `keep`, in order.
RECURSIVE Restrict(_, _, _)
Restrict(s, keep, i) ==
    IF i > Len(s) THEN <<>>
    ELSE (IF i \in keep THEN <<s[i]>> ELSE <<>>) \o Restrict(s, keep, i + 1)

\* Each literal of s emitted only on its first occurrence.
FirstOccurrences(s) ==
    Restrict(s, {i \in 1..Len(s) : \A j \in 1..(i - 1) : s[j] # s[i]}, 1)

\* s with every run of adjacent equal literals collapsed into one literal.
ConsecutiveCollapsed(s) ==
    Restrict(s, {i \in 1..Len(s) : i = 1 \/ s[i - 1] # s[i]}, 1)

\* No literal of s occurs again after a different literal.
RepeatsOnlyInRuns(s) ==
    \A i, j \in 1..Len(s) : (i < j /\ s[i] = s[j]) => \A k \in i..j : s[k] = s[i]

\* C7: contraction accepts if and only if it has exactly one premise, that
\* premise is a Step, and the conclusion clause is the premise clause with each
\* literal emitted only on its first occurrence.
C7_ContractionAcceptsIffFirstOccurrences ==
    pc = "done" =>
        (result = Some <=>
            /\ Len(premises) = 1
            /\ premises[1].kind = "step"
            /\ clause = FirstOccurrences(premises[1].clause))

\* A premise clause with a literal that comes back after another one was
\* contracted to its two first occurrences.
C7_Witness ==
    /\ pc = "done" /\ result = Some
    /\ Len(premises) = 1 /\ Len(premises[1].clause) = 3
    /\ premises[1].clause[1] = premises[1].clause[3]
    /\ Len(clause) = 2

\* C8 as claimed: for every premise clause, the clause with runs of adjacent
\* equal literals collapsed is accepted as the conclusion.
C8_ConsecutiveCollapsedAccepted ==
    (/\ pc = "done"
     /\ Len(premises) = 1 /\ premises[1].kind = "step"
     /\ clause = ConsecutiveCollapsed(premises[1].clause)) => result = Some

\* C8, amended: the clause with runs of adjacent equal literals collapsed is
\* accepted exactly when no literal of the premise clause occurs again after a
\* different literal; it is then the first-occurrence clause.
C8_ConsecutiveCollapsedAcceptedIffRepeatsOnlyInRuns ==
    (/\ pc = "done"
     /\ Len(premises) = 1 /\ premises[1].kind = "step"
     /\ clause = ConsecutiveCollapsed(premises[1].clause)) =>
        /\ result = Some <=> RepeatsOnlyInRuns(premises[1].clause)
        /\ result = Some => clause = FirstOccurrences(premises[1].clause)

\* A premise clause with a run of two equal literals was contracted to the
\* clause with the run collapsed.
C8_Witness ==
    /\ pc = "done" /\ result = Some
    /\ Len(premises) = 1 /\ premises[1].kind = "step"
    /\ Len(premises[1].clause) = 3
    /\ premises[1].clause[1] = premises[1].clause[2]
    /\ premises[1].clause[2] # premises[1].clause[3]
    /\ clause = ConsecutiveCollapsed(premises[1].clause)

-----------------------------------------------------------------------------
(* distinct_elim applied to a clause                                         *)

MaxDistinctArgs == 3
MaxConjuncts == 4

d == Var("d")
s == Var("s")

\* The arguments of distinct: the first n of a, b, c, d or of p, q, r, s.
DistinctVars == <<a, b, c, d>>
DistinctBoolVars == <<p, q, r, s>>
DistinctArgLists ==
    {SubSeq(vs, 1, n) : vs \in {DistinctVars, DistinctBoolVars}, n \in 2..MaxDistinctArgs}

\* The conjuncts of a right-hand side: the inequalities of two of a, b, c, of
\* p, q, and a literal that is no inequality.
DistinctConjuncts ==
    ({Neq(t, u) : t, u \in {a, b, c}} \ {Neq(t, t) : t \in {a, b, c}})
    \cup {Eq(a, b), Neq(p, q)}

DistinctSecondTerms ==
    {false, p, Neq(a, b), Neq(b, a), Neq(a, c), Neq(p, q), Neq(q, p), Eq(a, b),
     Op("and", <<Neq(p, q), Neq(p, r), Neq(q, r)>>)}
    \cup {Op("and", cs) : cs \in SeqsUpTo(DistinctConjuncts, MaxConjuncts) \ {<<>>}}

DistinctElimClauses ==
    {<<Eq(Op("distinct", xs), rhs)>> : xs \in DistinctArgLists, rhs \in DistinctSecondTerms}
    \cup {<<>>, <<Neq(a, b)>>, <<Eq(a, b)>>,
          <<Eq(Op("distinct", <<a, b>>), Neq(a, b)), Eq(a, a)>>}

InitDistinctElim ==
    /\ pc = "distinct_elim"
    /\ clause \in DistinctElimClauses
    /\ premises = <<>>
    /\ result = "pending"
    /\ IdleResolution
    /\ IdleWalker

ApplyDistinctElim ==
    /\ pc = "distinct_elim"
    /\ result' = apply_rule(get_rule("distinct_elim"), clause, premises, <<>>)
    /\ pc' = "done"
    /\ UNCHANGED <<clause, premises, resolutionVars, walkerVars>>

SpecDistinctElim == InitDistinctElim /\ [][ApplyDistinctElim]_vars

(* Claims about distinct_elim *)

\* The clause is the single literal (= (distinct x_1 ... x_n) rhs).
IsDistinctElimClause(cl) ==
    /\ Len(cl) = 1
    /\ cl[1].kind = "op" /\ cl[1].name = "=" /\ Len(cl[1].args) = 2
    /\ cl[1].args[1].kind = "op" /\ cl[1].args[1].name = "distinct"

DistinctArgs(cl) == cl[1].args[1].args
Rhs(cl) == cl[1].args[2]

AllOfSortBool(xs) == \A i \in 1..Len(xs) : xs[i].kind = "var" /\ xs[i].name \in BoolVars
IsFalseLiteral(t) == t = [kind |-> "var", name |-> "false", args |-> <<>>]

\* C9 as claimed: with n >= 2 arguments, all of sort Bool, distinct_elim
\* accepts if and only if rhs is the boolean literal false.
C9_BoolDistinctAcceptsIffFalse ==
    (/\ pc = "done" /\ IsDistinctElimClause(clause)
     /\ Len(DistinctArgs(clause)) >= 2 /\ AllOfSortBool(DistinctArgs(clause))) =>
        (result = Some <=> IsFalseLiteral(Rhs(clause)))

\* C9, amended: with n >= 3 arguments, all of sort Bool, distinct_elim accepts
\* if and only if rhs is the boolean literal false (with n = 2 the rule for two
\* arguments applies, whatever their sort).
C9_ThreeBoolDistinctAcceptsIffFalse ==
    (/\ pc = "done" /\ IsDistinctElimClause(clause)
     /\ Len(DistinctArgs(clause)) >= 3 /\ AllOfSortBool(DistinctArgs(clause))) =>
        /\ result = Some <=> IsFalseLiteral(Rhs(clause))
        /\ result \in {Some, None}

\* (= (distinct p q r) false) was accepted.
C9_Witness ==
    /\ pc = "done" /\ result = Some
    /\ IsDistinctElimClause(clause)
    /\ DistinctArgs(clause) = <<p, q, r>>
    /\ IsFalseLiteral(Rhs(clause))

\* The position of the pair (i, j), i < j, among the pairs of 1..n in
\* lexicographic order.
PairPosition(i, j, n) == (i - 1) * n - (i * (i - 1)) \div 2 + (j - i)

\* rhs is a conjunction with exactly n(n-1)/2 conjuncts whose k-th conjunct is
\* (not (= x_i x_j)) or (not (= x_j x_i)) for the k-th pair (i, j).
IsPairwiseExpansion(xs, rhs) ==
    LET n == Len(xs)
    IN  /\ rhs.kind = "op" /\ rhs.name = "and"
        /\ Len(rhs.args) = (n * (n - 1)) \div 2
        /\ \A i, j \in 1..n :
              i < j => rhs.args[PairPosition(i, j, n)] \in
                           {Not(Eq(xs[i], xs[j])), Not(Eq(xs[j], xs[i]))}

\* C10: with n >= 3 non-Boolean arguments distinct_elim accepts if and only if
\* rhs is the pairwise expansion, and rejects every other rhs.
C10_AcceptsIffPairwiseExpansion ==
    (/\ pc = "done" /\ IsDistinctElimClause(clause)
     /\ Len(DistinctArgs(clause)) >= 3 /\ ~AllOfSortBool(DistinctArgs(clause))) =>
        /\ result = Some <=> IsPairwiseExpansion(DistinctArgs(clause), Rhs(clause))
        /\ ~IsPairwiseExpansion(DistinctArgs(clause), Rhs(clause)) => result = None

\* What the code does hold to: an accepted rhs is a conjunction that starts
\* with the pairwise expansion, and the pairwise expansion itself is accepted.
DistinctElimAcceptsExtensionsOfTheExpansion ==
    (/\ pc = "done" /\ IsDistinctElimClause(clause)
     /\ Len(DistinctArgs(clause)) >= 3 /\ ~AllOfSortBool(DistinctArgs(clause))) =>
        LET xs == DistinctArgs(clause)
            n == Len(xs)
            rhs == Rhs(clause)
        IN  /\ IsPairwiseExpansion(xs, rhs) => result = Some
            /\ result = Some =>
                  /\ rhs.kind = "op" /\ rhs.name = "and"
                  /\ Len(rhs.args) >= (n * (n - 1)) \div 2
                  /\ IsPairwiseExpansion(xs, Op("and", SubSeq(rhs.args, 1, (n * (n - 1)) \div 2)))

-----------------------------------------------------------------------------
(* The rules of rules/clausification.rs: nary_elim                           *)

\* Mutant of chain_eq: the links of the chain in any order.
chain_eq_AnyOrder(op, args, chain_terms) ==
    /\ Len(chain_terms) = (IF Len(args) = 0 THEN 0 ELSE Len(args) - 1)
    /\ \A i \in 1..Len(chain_terms) :
          \E k \in 1..Len(chain_terms) :
             /\ chain_terms[k].kind = "op"
             /\ chain_terms[k].name = op
             /\ chain_terms[k].args = <<args[i], args[i + 1]>>

\* args.windows(2).map(Some).eq(chain): the i-th term of the conjunction is
\* the operator applied to exactly the i-th pair of adjacent arguments.
chain_eq(op, args, chain_terms) ==
    /\ Len(chain_terms) = (IF Len(args) = 0 THEN 0 ELSE Len(args) - 1)
    /\ \A i \in 1..Len(chain_terms) :
          /\ chain_terms[i].kind = "op"
          /\ chain_terms[i].name = op
          /\ chain_terms[i].args = <<args[i], args[i + 1]>>

\* Mutant of check_assoc: the nested operation is always the left-hand argument.
RECURSIVE check_assoc_AlwaysLeft(_, _, _, _)
check_assoc_AlwaysLeft(op, args, result_term, is_right) ==
    IF Len(args) = 0 THEN FALSE
    ELSE IF Len(args) = 1 THEN args[1] = result_term
    ELSE IF result_term.kind = "op" /\ Len(result_term.args) = 2
         THEN /\ result_term.name = op
              /\ result_term.args[2] = args[Len(args)]
              /\ check_assoc_AlwaysLeft(op, SubSeq(args, 1, Len(args) - 1),
                                        result_term.args[1], is_right)
         ELSE FALSE

\* nary_elim::check_assoc
RECURSIVE check_assoc(_, _, _, _)
check_assoc(op, args, result_term, is_right) ==
    IF Len(args) = 0 THEN FALSE
    ELSE IF Len(args) = 1 THEN args[1] = result_term
    ELSE LET head == IF is_right THEN args[1] ELSE args[Len(args)]
             tail == IF is_right THEN Tail(args) ELSE SubSeq(args, 1, Len(args) - 1)
         IN  IF result_term.kind = "op" /\ Len(result_term.args) = 2
             THEN LET got_head == IF is_right THEN result_term.args[1]
                                  ELSE result_term.args[2]
                      nested == IF is_right THEN result_term.args[2]
                                ELSE result_term.args[1]
                  IN  /\ result_term.name = op
                      /\ got_head = head
                      /\ check_assoc(op, tail, nested, is_right)
             ELSE FALSE

nary_elim(cl, prem, args) ==
    IF Len(cl) # 1 THEN None
    ELSE IF ~IsEq(cl[1]) THEN None
    ELSE LET original == cl[1].args[1]
             res == cl[1].args[2]
         IN  IF original.kind # "op" THEN None
             ELSE IF original.name = "="
                  THEN IF ~IsOp(res, "and") THEN None
                       ELSE to_option(chain_eq(original.name, original.args, res.args))
             ELSE IF original.name \in {"+", "-", "*"}
                  THEN to_option(check_assoc(original.name, original.args, res, FALSE))
             ELSE IF original.name = "=>"
                  THEN to_option(check_assoc(original.name, original.args, res, TRUE))
             ELSE None

-----------------------------------------------------------------------------
(* nary_elim applied to a clause                                             *)

MaxNaryArgs == 3

\* The arguments of the original term: the first n of a, b, c, d, and a list
\* that reads the same in both directions.
NaryOperators == {"=", "+", "-", "*", "=>", "or"}
NaryArgLists ==
    {SubSeq(DistinctVars, 1, n) : n \in 1..MaxNaryArgs} \cup {<<a, b, a>>}
NaryOriginals == {Op(o, xs) : o \in NaryOperators, xs \in NaryArgLists} \cup {a}

\* ((x_1 op x_2) op x_3) ... and x_1 op (x_2 op (...))
RECURSIVE LeftNested(_, _)
LeftNested(o, xs) ==
    IF Len(xs) = 1 THEN xs[1]
    ELSE Op(o, <<LeftNested(o, SubSeq(xs, 1, Len(xs) - 1)), xs[Len(xs)]>>)
RECURSIVE RightNested(_, _)
RightNested(o, xs) ==
    IF Len(xs) = 1 THEN xs[1] ELSE Op(o, <<xs[1], RightNested(o, Tail(xs))>>)

\* The right-hand sides: conjunctions of equalities between two of a, b, c
\* (and of terms that are no equality), the two nestings of every list of
\* a, b, c under every operator, nestings that mix operators, and terms of
\* other shapes.
NaryConjuncts ==
    ({Eq(t, u) : t, u \in {a, b, c}} \ {Eq(t, t) : t \in {a, b, c}})
    \cup {Op("+", <<a, b>>)}
NaryResults ==
    {Op("and", cs) : cs \in SeqsUpTo(NaryConjuncts, MaxNaryArgs) \ {<<>>}}
    \cup {LeftNested(o, xs) : o \in NaryOperators,
                             xs \in SeqsUpTo({a, b, c}, MaxNaryArgs) \ {<<>>}}
    \cup {RightNested(o, xs) : o \in NaryOperators,
                              xs \in SeqsUpTo({a, b, c}, MaxNaryArgs) \ {<<>>}}
    \cup {Op("+", <<Op("-", <<a, b>>), c>>), Op("=>", <<a, Op("+", <<b, c>>)>>),
          Op("-", <<a>>), Op("+", <<a, b, c>>), Op("=>", <<a, b, c>>),
          Op("or", <<Eq(a, b), Eq(b, c)>>)}

NaryElimClauses ==
    {<<Eq(o, res)>> : o \in NaryOriginals, res \in NaryResults}
    \cup {<<>>, <<Op("+", <<a, b>>)>>,
          <<Eq(Op("+", <<a, b>>), Op("+", <<a, b>>)), Eq(a, a)>>}

InitNaryElim ==
    /\ pc = "nary_elim"
    /\ clause \in NaryElimClauses
    /\ premises = <<>>
    /\ result = "pending"
    /\ IdleResolution
    /\ IdleWalker

ApplyNaryElim ==
    /\ pc = "nary_elim"
    /\ result' = nary_elim(clause, premises, <<>>)
    /\ pc' = "done"
    /\ UNCHANGED <<clause, premises, resolutionVars, walkerVars>>

SpecNaryElim == InitNaryElim /\ [][ApplyNaryElim]_vars

(* Claims about nary_elim *)

\* The conclusion is the single literal (= original result), original an
\* application of operator o.
IsNaryElimClause(cl) ==
    Len(cl) = 1 /\ IsEq(cl[1]) /\ cl[1].args[1].kind = "op"
Original(cl) == cl[1].args[1]
NaryResult(cl) == cl[1].args[2]

\* (and e_1 ... e_{n-1}) with e_i = (= a_i a_{i+1})
ChainExpansion(xs) == Op("and", [i \in 1..(Len(xs) - 1) |-> Eq(xs[i], xs[i + 1])])

Reverse(xs) == [i \in 1..Len(xs) |-> xs[Len(xs) + 1 - i]]

\* C11: nary_elim on a chainable original (= a_1 ... a_n), n >= 2, accepts if
\* and only if the result is (and (= a_1 a_2) ... (= a_{n-1} a_n)), exactly
\* n-1 conjuncts in that order, sides not flipped.
C11_ChainableAcceptsIffChainExpansion ==
    (/\ pc = "done" /\ IsNaryElimClause(clause)
     /\ Original(clause).name = "=" /\ Len(Original(clause).args) >= 2) =>
        (result = Some <=> NaryResult(clause) = ChainExpansion(Original(clause).args))

\* A chain of three arguments is accepted.
C11_Witness ==
    /\ pc = "done" /\ result = Some
    /\ clause = <<Eq(Op("=", <<a, b, c>>), Op("and", <<Eq(a, b), Eq(b, c)>>))>>

\* The binary fold of the arguments in the direction of the operator.
AssocFold(o, xs) == IF o = "=>" THEN RightNested(o, xs) ELSE LeftNested(o, xs)
OppositeFold(o, xs) == IF o = "=>" THEN LeftNested(o, xs) ELSE RightNested(o, xs)

\* C12: nary_elim on an associative original (op a_1 ... a_n), n >= 2, accepts
\* if and only if the result is the binary fold of the arguments under the same
\* operator, left-nested for +, -, * and right-nested for =>; the opposite
\* nesting and the fold of the reversed arguments, where they differ from it,
\* are rejected, and so is every original whose operator is not one of
\* =, +, -, *, =>.
C12_AssociativeAcceptsIffFold ==
    (pc = "done" /\ IsNaryElimClause(clause)) =>
        LET o == Original(clause).name
            xs == Original(clause).args
            res == NaryResult(clause)
        IN  /\ (o \in {"+", "-", "*", "=>"} /\ Len(xs) >= 2) =>
                  /\ result = Some <=> res = AssocFold(o, xs)
                  /\ (res = OppositeFold(o, xs) /\ Len(xs) >= 3) => result = None
                  /\ (res = AssocFold(o, Reverse(xs)) /\ Reverse(xs) # xs) => result = None
            /\ o \notin {"=", "+", "-", "*", "=>"} => result = None

\* A right-nested implication of three arguments is accepted.
C12_Witness ==
    /\ pc = "done" /\ result = Some
    /\ clause = <<Eq(Op("=>", <<a, b, c>>), Op("=>", <<a, Op("=>", <<b, c>>)>>))>>

\* C13: nary_elim rejects every conclusion (= original result) whose original
\* is an operator application with fewer than two arguments, whatever the
\* result is.
C13_FewerThanTwoArgumentsRejected ==
    (/\ pc = "done" /\ IsNaryElimClause(clause)
     /\ Len(Original(clause).args) < 2) => result = None

-----------------------------------------------------------------------------
(* ite_intro applied to a clause                                             *)

MaxIteTerms == 2

Ite(cond, t, u) == Op("ite", <<cond, t, u>>)
ite_pab == Ite(p, a, b)
ite_qbc == Ite(q, b, c)

\* The root terms: without ite, with one, with two side by side, with one
\* inside the other, and with the same one twice.
IteRoots ==
    {a, ite_pab, Op("+", <<ite_pab, ite_qbc>>), Ite(p, ite_qbc, c),
     Op("+", <<ite_pab, ite_pab>>)}

\* (ite c (= (ite c a b) a) (= (ite c a b) b)): the ite term on the first side
IteFirst(t) == Ite(t.args[1], Eq(t, t.args[2]), Eq(t, t.args[3]))
\* (ite c (= a (ite c a b)) (= b (ite c a b))): the ite term on the second side
IteSecond(t) == Ite(t.args[1], Eq(t.args[2], t), Eq(t.args[3], t))

\* The conjuncts after the first: both forms for every ite term of the roots,
\* a form with the branches exchanged, and a term that is no ite.
IteConjuncts ==
    {IteFirst(t) : t \in {ite_pab, ite_qbc, Ite(p, ite_qbc, c)}}
    \cup {IteSecond(t) : t \in {ite_pab, ite_qbc, Ite(p, ite_qbc, c)}}
    \cup {Ite(p, Eq(b, ite_pab), Eq(a, ite_pab)), Eq(a, b)}

IteIntroClauses ==
    {<<Eq(t, Op("and", <<u>> \o us))>> :
        t \in IteRoots, u \in IteRoots, us \in SeqsUpTo(IteConjuncts, MaxIteTerms)}
    \cup {<<Eq(t, u)>> : t \in IteRoots, u \in {a, Op("or", <<a, IteSecond(ite_pab)>>)}}
    \cup {<<>>, <<ite_pab>>, <<Eq(a, Op("and", <<a>>)), Eq(a, Op("and", <<a>>))>>}

InitIteIntro ==
    /\ pc = "ite_intro"
    /\ clause \in IteIntroClauses
    /\ premises = <<>>
    /\ result = "pending"
    /\ IdleResolution
    /\ IdleWalker

ApplyIteIntro ==
    /\ pc = "ite_intro"
    /\ result' = apply_rule(get_rule("ite_intro"), clause, premises, <<>>)
    /\ pc' = "done"
    /\ UNCHANGED <<clause, premises, resolutionVars, walkerVars>>

SpecIteIntro == InitIteIntro /\ [][ApplyIteIntro]_vars

(* Claims about ite_intro *)

\* The conclusion is the single literal (= t (and t u_1 ... u_k)).
IsIteIntroClause(cl) ==
    /\ Len(cl) = 1 /\ IsEq(cl[1])
    /\ IsOp(cl[1].args[2], "and")
    /\ Len(cl[1].args[2].args) >= 1
    /\ cl[1].args[2].args[1] = cl[1].args[1]
RootTerm(cl) == cl[1].args[1]
Us(cl) == Tail(cl[1].args[2].args)
\* The (ite c a b) subterm occurrences of t, in pre-order.
IteOccurrences(t) == SelectSeq(subterms(t), IsIte)

\* C14: ite_intro accepts a single-literal conclusion (= t (and t u_1 ... u_k))
\* exactly when k is the number of (ite c a b) subterm occurrences of t in
\* pre-order and every u_i is (ite c (= (ite c a b) a) (= (ite c a b) b)) for
\* the i-th of them, the ite term being the first side of the inner equalities.
C14_IteIntroAcceptsIffIteFirstForms ==
    (pc = "done" /\ IsIteIntroClause(clause)) =>
        LET occ == IteOccurrences(RootTerm(clause))
            us == Us(clause)
        IN  result = Some <=>
               /\ Len(us) = Len(occ)
               /\ \A i \in 1..Len(occ) : us[i] = IteFirst(occ[i])

\* What the code holds to: the same with the ite term on the second side of
\* the inner equalities.
IteIntroAcceptsIffIteSecondForms ==
    (pc = "done" /\ IsIteIntroClause(clause)) =>
        LET occ == IteOccurrences(RootTerm(clause))
            us == Us(clause)
        IN  result = Some <=>
               /\ Len(us) = Len(occ)
               /\ \A i \in 1..Len(occ) : us[i] = IteSecond(occ[i])

-----------------------------------------------------------------------------
(* Quantified terms and proof arguments                                      *)

\* Term::Quant(quantifier, bindings, body): kind = "quant", name the
\* quantifier ("forall" or "exists"), args = <<body>>, and `bindings` the
\* sequence of <<variable name, sort>> pairs.
Quant(quantifier, bs, t) ==
    [kind |-> "quant", name |-> quantifier, args |-> <<t>>, bindings |-> bs]
Forall(bs, t) == Quant("forall", bs, t)
Exists(bs, t) == Quant("exists", bs, t)
\* Term::unwrap_quant: Some((quantifier, bindings, body)) exactly for a Quant
is_quant(t) == t.kind = "quant"

\* ProofArg::Assign(name, value) and ProofArg::Term(term)
Assign(n, v) == [kind |-> "assign", name |-> n, value |-> v]
TermArg(t) == [kind |-> "term", name |-> "", value |-> t]

var_x == Var("x")
var_y == Var("y")
var_z == Var("z")

\* The substitution map collected from the (variable term, value) pairs: a
\* sequence of <<name, sort, value>>, a later entry replacing an earlier one
\* with the same key.
HasKey(sigma, t) ==
    t.kind = "var" /\ \E i \in 1..Len(sigma) : sigma[i][1] = t.name /\ sigma[i][2] = sort(t)
ValueOf(sigma, t) ==
    LET last == CHOOSE i \in 1..Len(sigma) :
                   /\ sigma[i][1] = t.name /\ sigma[i][2] = sort(t)
                   /\ \A k \in (i + 1)..Len(sigma) :
                         ~(sigma[k][1] = t.name /\ sigma[k][2] = sort(t))
    IN  sigma[last][3]
\* The keys a quantifier rebinds are left out inside its body.
Shadow(sigma, bs) ==
    SelectSeq(sigma, LAMBDA e : \A i \in 1..Len(bs) : bs[i][1] # e[1])

\* TermPool::apply_substitutions: every occurrence of a key is replaced by its
\* value, all keys at once; inside a quantifier the keys it rebinds are not
\* replaced.
RECURSIVE apply_substitutions(_, _)
apply_substitutions(t, sigma) ==
    IF HasKey(sigma, t) THEN ValueOf(sigma, t)
    ELSE IF t.kind = "var" THEN t
    ELSE IF t.kind = "quant"
         THEN Quant(t.name, t.bindings,
                    apply_substitutions(t.args[1], Shadow(sigma, t.bindings)))
    ELSE [t EXCEPT !.args = [i \in 1..Len(t.args) |-> apply_substitutions(t.args[i], sigma)]]

\* DeepEq::eq_modulo_reordering: structural equality, except that (= x y) is
\* also equal to (= y x).
RECURSIVE eq_modulo_reordering(_, _)
eq_modulo_reordering(t, u) ==
    IF IsEq(t) /\ IsEq(u)
    THEN \/ /\ eq_modulo_reordering(t.args[1], u.args[1])
            /\ eq_modulo_reordering(t.args[2], u.args[2])
         \/ /\ eq_modulo_reordering(t.args[1], u.args[2])
            /\ eq_modulo_reordering(t.args[2], u.args[1])
    ELSE /\ t.kind = u.kind
         /\ t.name = u.name
         /\ (t.kind = "quant" => t.bindings = u.bindings)
         /\ Len(t.args) = Len(u.args)
         /\ \A i \in 1..Len(t.args) : eq_modulo_reordering(t.args[i], u.args[i])

\* TermPool::free_vars: the names of the variables of a term, the names a
\* quantifier binds subtracted from those of its body.
RECURSIVE free_vars(_)
free_vars(t) ==
    IF t.kind = "var" THEN {t.name}
    ELSE IF t.kind = "quant"
         THEN free_vars(t.args[1]) \ {t.bindings[i][1] : i \in 1..Len(t.bindings)}
    ELSE UNION {free_vars(t.args[i]) : i \in 1..Len(t.args)}

\* DedupIterator: the items in order, an item left out when the name it binds
\* has appeared before.
dedup(bs) ==
    LET flagged == [i \in 1..Len(bs) |->
                       <<bs[i], \A k \in 1..(i - 1) : bs[k][1] # bs[i][1]>>]
        kept == SelectSeq(flagged, LAMBDA e : e[2])
    IN  [i \in 1..Len(kept) |-> kept[i][1]]

-----------------------------------------------------------------------------
(* The rules of rules/quantifier.rs                                          *)

\* The zip of bindings and args of forall_inst: TRUE when every arg is an
\* Assign naming the binding at its position with a value of the binding's sort.
forall_inst_args_ok(bs, args) ==
    \A i \in 1..Len(bs) :
        /\ args[i].kind = "assign"
        /\ args[i].name = bs[i][1]
        /\ bs[i][2] = sort(args[i].value)

substitutions(bs, args) == [i \in 1..Len(bs) |-> <<args[i].name, bs[i][2], args[i].value>>]

\* Mutant of forall_inst: the name of an argument is not compared with the
\* binding's.
forall_inst_NoNameCheck(cl, prem, args) ==
    IF Len(cl) # 1 THEN None
    ELSE IF ~(IsOp(cl[1], "or") /\ Len(cl[1].args) = 2 /\ IsNot(cl[1].args[1])) THEN None
    ELSE LET forall_term == cl[1].args[1].args[1]
             substituted == cl[1].args[2]
         IN  IF ~is_quant(forall_term) THEN None
             ELSE IF forall_term.name # "forall" THEN None
             ELSE IF Len(args) # Len(forall_term.bindings) THEN None
             ELSE IF ~(\A i \in 1..Len(args) :
                          /\ args[i].kind = "assign"
                          /\ forall_term.bindings[i][2] = sort(args[i].value))
                  THEN None
             ELSE to_option(eq_modulo_reordering(
                      apply_substitutions(forall_term.args[1],
                          [i \in 1..Len(args) |->
                              <<forall_term.bindings[i][1], forall_term.bindings[i][2],
                                args[i].value>>]),
                      substituted))

\* Mutant of forall_inst: the substituted body is compared with structural
\* equality.
forall_inst_StructuralEq(cl, prem, args) ==
    IF Len(cl) # 1 THEN None
    ELSE IF ~(IsOp(cl[1], "or") /\ Len(cl[1].args) = 2 /\ IsNot(cl[1].args[1])) THEN None
    ELSE LET forall_term == cl[1].args[1].args[1]
             substituted == cl[1].args[2]
         IN  IF ~is_quant(forall_term) THEN None
             ELSE IF forall_term.name # "forall" THEN None
             ELSE IF Len(args) # Len(forall_term.bindings) THEN None
             ELSE IF ~forall_inst_args_ok(forall_term.bindings, args) THEN None
             ELSE to_option(
                      apply_substitutions(forall_term.args[1],
                                          substitutions(forall_term.bindings, args))
                      = substituted)

forall_inst(cl, prem, args) ==
    IF Len(cl) # 1 THEN None
    ELSE IF ~(IsOp(cl[1], "or") /\ Len(cl[1].args) = 2 /\ IsNot(cl[1].args[1])) THEN None
    ELSE LET forall_term == cl[1].args[1].args[1]
             substituted == cl[1].args[2]
         IN  IF ~is_quant(forall_term) THEN None
             ELSE IF forall_term.name # "forall" THEN None
             ELSE IF Len(args) # Len(forall_term.bindings) THEN None
             ELSE IF ~forall_inst_args_ok(forall_term.bindings, args) THEN None
             ELSE to_option(eq_modulo_reordering(
                      apply_substitutions(forall_term.args[1],
                                          substitutions(forall_term.bindings, args)),
                      substituted))

\* Mutant of qnt_join: the bindings are chained without removing duplicates.
qnt_join_NoDedup(cl, prem, args) ==
    IF Len(cl) # 1 THEN None
    ELSE IF ~IsEq(cl[1]) THEN None
    ELSE LET left == cl[1].args[1]
             right == cl[1].args[2]
         IN  IF ~is_quant(left) THEN None
             ELSE IF ~is_quant(left.args[1]) THEN None
             ELSE IF ~is_quant(right) THEN None
             ELSE IF ~(/\ left.name = left.args[1].name
                       /\ left.args[1].name = right.name
                       /\ left.args[1].args[1] = right.args[1])
                  THEN None
             ELSE to_option(right.bindings = left.bindings \o left.args[1].bindings)

qnt_join(cl, prem, args) ==
    IF Len(cl) # 1 THEN None
    ELSE IF ~IsEq(cl[1]) THEN None
    ELSE LET left == cl[1].args[1]
             right == cl[1].args[2]
         IN  IF ~is_quant(left) THEN None
             ELSE IF ~is_quant(left.args[1]) THEN None
             ELSE IF ~is_quant(right) THEN None
             ELSE IF ~(/\ left.name = left.args[1].name
                       /\ left.args[1].name = right.name
                       /\ left.args[1].args[1] = right.args[1])
                  THEN None
             ELSE to_option(right.bindings = dedup(left.bindings \o left.args[1].bindings))

\* Mutant of qnt_rm_unused: the bindings are compared as they are.
qnt_rm_unused_NoFilter(cl, prem, args) ==
    IF Len(cl) # 1 THEN None
    ELSE IF ~IsEq(cl[1]) THEN None
    ELSE LET left == cl[1].args[1]
             right == cl[1].args[2]
         IN  IF ~is_quant(left) THEN None
             ELSE IF ~is_quant(right) THEN None
             ELSE IF ~(left.name = right.name /\ left.args[1] = right.args[1]) THEN None
             ELSE to_option(left.bindings = right.bindings)

qnt_rm_unused(cl, prem, args) ==
    IF Len(cl) # 1 THEN None
    ELSE IF ~IsEq(cl[1]) THEN None
    ELSE LET left == cl[1].args[1]
             right == cl[1].args[2]
         IN  IF ~is_quant(left) THEN None
             ELSE IF ~is_quant(right) THEN None
             ELSE IF ~(left.name = right.name /\ left.args[1] = right.args[1]) THEN None
             ELSE LET fv == free_vars(left.args[1])
                  IN  to_option(SelectSeq(left.bindings, LAMBDA e : e[1] \in fv)
                                = right.bindings)

-----------------------------------------------------------------------------
(* forall_inst applied to a step; `proof` holds the step, whose args the     *)
(* rule receives                                                             *)

MaxForallArgs == 2

bind_x == <<"x", "T">>
bind_y == <<"y", "T">>
bind_z == <<"z", "T">>
bind_p == <<"p", "Bool">>

ForallBindings == {<<bind_x>>, <<bind_x, bind_y>>, <<bind_y, bind_x>>, <<bind_p>>}
ForallBodies ==
    {Eq(var_x, var_y), Eq(var_x, a), p, Op("and", <<Eq(var_x, var_y), Eq(a, b)>>),
     Forall(<<bind_x>>, Eq(var_x, var_y))}
\* The proof arguments: assignments of the bound names, one with a value of
\* another sort, one naming a symbol that is no binding, and a bare term.
ForallArgs ==
    {Assign("x", a), Assign("y", b), Assign("x", b), Assign("p", q),
     Assign("p", Eq(a, b)), Assign("x", q), Assign("a", b), TermArg(b)}
ForallInstances ==
    {Eq(a, b), Eq(b, a), Eq(a, a), Eq(b, b), q, Eq(var_x, b),
     Op("and", <<Eq(a, b), Eq(a, b)>>), Op("and", <<Eq(b, a), Eq(a, b)>>),
     Op("and", <<Eq(a, b), Eq(b, a)>>), Op("and", <<Eq(b, a), Eq(b, a)>>),
     Forall(<<bind_x>>, Eq(var_x, b)), Forall(<<bind_x>>, Eq(b, var_x)),
     Forall(<<bind_x>>, Eq(a, b))}

ForallInstClauses ==
    {<<Op("or", <<Not(Forall(bs, t)), u>>)>> :
        bs \in ForallBindings, t \in ForallBodies, u \in ForallInstances}
    \cup {<<>>,
          <<Op("or", <<Not(Exists(<<bind_p>>, p)), q>>)>>,
          <<Op("or", <<Forall(<<bind_p>>, p), q>>)>>,
          <<Op("or", <<Not(p), q>>)>>,
          <<Op("or", <<Not(Forall(<<bind_p>>, p)), q, q>>)>>,
          <<Op("and", <<Not(Forall(<<bind_p>>, p)), q>>)>>,
          <<Not(Forall(<<bind_p>>, p)), q>>,
          <<Op("or", <<Not(Forall(<<bind_p>>, p)), q>>), q>>}

InitForallInst ==
    /\ pc = "forall_inst"
    /\ \E cl \in ForallInstClauses, ar \in SeqsUpTo(ForallArgs, MaxForallArgs) :
          /\ proof = <<StepArgs(cl, "forall_inst", <<>>, ar)>>
          /\ clause = cl
    /\ idx = 0
    /\ verdict = "unset"
    /\ invoked = <<>>
    /\ skip_unknown_rules = FALSE
    /\ premises = <<>>
    /\ result = "pending"
    /\ IdleResolution

ApplyForallInst ==
    /\ pc = "forall_inst"
    /\ result' = forall_inst(clause, premises, proof[1].args)
    /\ pc' = "done"
    /\ UNCHANGED <<clause, premises, resolutionVars, walkerVars>>

SpecForallInst == InitForallInst /\ [][ApplyForallInst]_vars

(* Claims about forall_inst *)

\* The conclusion is the single literal (or (not (forall (...) phi)) phi').
IsForallInstClause(cl) ==
    /\ Len(cl) = 1
    /\ cl[1].kind = "op" /\ cl[1].name = "or" /\ Len(cl[1].args) = 2
    /\ cl[1].args[1].kind = "op" /\ cl[1].args[1].name = "not"
    /\ Len(cl[1].args[1].args) = 1
    /\ cl[1].args[1].args[1].kind = "quant"
    /\ cl[1].args[1].args[1].name = "forall"
Bindings(cl) == cl[1].args[1].args[1].bindings
Phi(cl) == cl[1].args[1].args[1].args[1]
PhiPrime(cl) == cl[1].args[2]
WithPhiPrime(cl, u) == <<Op("or", <<cl[1].args[1], u>>)>>

\* C15: forall_inst rejects unless the conclusion is a single literal
\* (or (not (forall ((x_1 S_1) ... (x_n S_n)) phi)) phi') and the args are
\* exactly n entries, all of the Assign form, the i-th with name x_i and a
\* value of sort S_i.
C15_ForallInstAcceptsOnlyMatchingAssigns ==
    (pc = "done" /\ result = Some) =>
        /\ IsForallInstClause(clause)
        /\ Len(proof[1].args) = Len(Bindings(clause))
        /\ \A i \in 1..Len(Bindings(clause)) :
              /\ proof[1].args[i].kind = "assign"
              /\ proof[1].args[i].name = Bindings(clause)[i][1]
              /\ sort(proof[1].args[i].value) = Bindings(clause)[i][2]

\* Two bindings instantiated by two assignments are accepted.
C15_Witness ==
    /\ pc = "done" /\ result = Some
    /\ IsForallInstClause(clause)
    /\ Bindings(clause) = <<bind_x, bind_y>>
    /\ proof[1].args = <<Assign("x", a), Assign("y", b)>>

\* The terms obtained from t by swapping the sides of one equality subterm.
RECURSIVE OneFlip(_)
OneFlip(t) ==
    (IF IsEq(t) THEN {Eq(t.args[2], t.args[1])} ELSE {})
    \cup UNION {{[t EXCEPT !.args[i] = u] : u \in OneFlip(t.args[i])} : i \in 1..Len(t.args)}

\* The terms equal to t up to (= x y) <-> (= y x): those obtained by swapping
\* the sides of any number of equality subterms.
RECURSIVE FlipClosure(_)
FlipClosure(t) ==
    LET inner == {[t EXCEPT !.args = us] :
                     us \in {vs \in [1..Len(t.args) ->
                                       UNION {FlipClosure(t.args[i]) : i \in 1..Len(t.args)}] :
                                \A i \in 1..Len(t.args) : vs[i] \in FlipClosure(t.args[i])}}
    IN  inner \cup (IF IsEq(t) THEN {Eq(u.args[2], u.args[1]) : u \in inner} ELSE {})

\* C16: forall_inst is stable under equality flips: a step it accepts is still
\* accepted once the two sides of any equality subterm of phi' are swapped;
\* and it accepts only when the simultaneous substitution x_i -> value_i
\* applied to phi equals phi' up to (= x y) <-> (= y x).
C16_ForallInstStableUnderEqualityFlips ==
    (pc = "done" /\ result = Some) =>
        /\ \A u \in OneFlip(PhiPrime(clause)) :
              forall_inst(WithPhiPrime(clause, u), premises, proof[1].args) = Some
        /\ PhiPrime(clause) \in
              FlipClosure(apply_substitutions(Phi(clause),
                  [i \in 1..Len(proof[1].args) |->
                      <<proof[1].args[i].name, Bindings(clause)[i][2],
                        proof[1].args[i].value>>]))

\* An instance with one equality flipped and one kept is accepted.
C16_Witness ==
    /\ pc = "done" /\ result = Some
    /\ IsForallInstClause(clause)
    /\ Phi(clause) = Op("and", <<Eq(var_x, var_y), Eq(a, b)>>)
    /\ proof[1].args = <<Assign("x", a), Assign("y", b)>>
    /\ PhiPrime(clause) = Op("and", <<Eq(b, a), Eq(a, b)>>)

-----------------------------------------------------------------------------
(* qnt_join applied to a clause                                              *)

MaxJoinBindings == 2
MaxJoinedLen == 3

Quantifiers == {"forall", "exists"}
JoinBindings == SeqsUpTo({bind_x, bind_y}, MaxJoinBindings) \ {<<>>}
JoinedBindings == SeqsUpTo({bind_x, bind_y}, MaxJoinedLen) \ {<<>>}
JoinBodies == {Eq(var_x, var_y), p}

\* The clause (= (q_1 bs_1 (q_2 bs_2 t)) (q_3 bs_3 u)), and clauses of other shapes.
QntJoinClause(q_1, bs_1, q_2, bs_2, t, q_3, bs_3, u) ==
    <<Eq(Quant(q_1, bs_1, Quant(q_2, bs_2, t)), Quant(q_3, bs_3, u))>>
QntJoinOtherClauses ==
    {<<>>,
     <<Eq(Forall(<<bind_x>>, p), Forall(<<bind_x>>, p))>>,
     <<Eq(p, Forall(<<bind_x>>, p))>>,
     <<Eq(Forall(<<bind_x>>, Forall(<<bind_y>>, p)), p)>>,
     <<Op("or", <<Forall(<<bind_x>>, Forall(<<bind_y>>, p)),
                 Forall(<<bind_x, bind_y>>, p)>>)>>,
     <<Eq(Forall(<<bind_x>>, Forall(<<bind_y>>, p)), Forall(<<bind_x, bind_y>>, p)),
       p>>}

InitQntJoin ==
    /\ pc = "qnt_join"
    /\ \/ \E q_1 \in Quantifiers, q_2 \in Quantifiers, q_3 \in Quantifiers,
             bs_1 \in JoinBindings, bs_2 \in JoinBindings, bs_3 \in JoinedBindings,
             t \in JoinBodies, u \in JoinBodies :
               clause = QntJoinClause(q_1, bs_1, q_2, bs_2, t, q_3, bs_3, u)
       \/ clause \in QntJoinOtherClauses
    /\ premises = <<>>
    /\ result = "pending"
    /\ IdleResolution
    /\ IdleWalker

ApplyQntJoin ==
    /\ pc = "qnt_join"
    /\ result' = qnt_join(clause, premises, <<>>)
    /\ pc' = "done"
    /\ UNCHANGED <<clause, premises, resolutionVars, walkerVars>>

SpecQntJoin == InitQntJoin /\ [][ApplyQntJoin]_vars

(* Claims about qnt_join *)

\* The conclusion is the single literal (= (Q1 b1 (Q2 b2 body)) (Q3 b3 body')).
IsQntJoinClause(cl) ==
    /\ Len(cl) = 1 /\ IsEq(cl[1])
    /\ cl[1].args[1].kind = "quant"
    /\ cl[1].args[1].args[1].kind = "quant"
    /\ cl[1].args[2].kind = "quant"
Outer(cl) == cl[1].args[1]
Inner(cl) == cl[1].args[1].args[1]
Joined(cl) == cl[1].args[2]

\* bs with every binding whose variable name already appeared discarded.
RECURSIVE DropRepeatedNames(_, _)
DropRepeatedNames(bs, seen) ==
    IF bs = <<>> THEN <<>>
    ELSE IF Head(bs)[1] \in seen THEN DropRepeatedNames(Tail(bs), seen)
    ELSE <<Head(bs)>> \o DropRepeatedNames(Tail(bs), seen \cup {Head(bs)[1]})

\* C17: qnt_join accepts (= (Q1 b1 (Q2 b2 body)) (Q3 b3 body')) if and only if
\* Q1 = Q2 = Q3, body = body', and b3 is b1 followed by b2 with every later
\* binding whose variable name already appeared discarded, the order of the
\* first occurrences kept.
C17_QntJoinAcceptsIffDedupedConcatenation ==
    (pc = "done" /\ IsQntJoinClause(clause)) =>
        (result = Some <=>
            /\ Outer(clause).name = Inner(clause).name
            /\ Inner(clause).name = Joined(clause).name
            /\ Inner(clause).args[1] = Joined(clause).args[1]
            /\ Joined(clause).bindings =
                  DropRepeatedNames(Outer(clause).bindings \o Inner(clause).bindings, {}))

\* (forall (x y) (forall (y x) ...)) joined into (forall (x y) ...) is accepted.
C17_Witness ==
    /\ pc = "done" /\ result = Some
    /\ IsQntJoinClause(clause)
    /\ Outer(clause).bindings = <<bind_x, bind_y>>
    /\ Inner(clause).bindings = <<bind_y, bind_x>>
    /\ Joined(clause).bindings = <<bind_x, bind_y>>

-----------------------------------------------------------------------------
(* qnt_rm_unused applied to a clause                                         *)

MaxRmBindings == 3

RmBindings == SeqsUpTo({bind_x, bind_y, bind_z}, MaxRmBindings)
RmBodies == {Eq(var_x, var_z), Eq(var_y, var_y), Forall(<<bind_x>>, Eq(var_x, var_y))}

\* The clause (= (q_1 bs_1 t) (q_2 bs_2 u)), and clauses of other shapes.
QntRmUnusedClause(q_1, bs_1, t, q_2, bs_2, u) ==
    <<Eq(Quant(q_1, bs_1, t), Quant(q_2, bs_2, u))>>
QntRmUnusedOtherClauses ==
    {<<>>,
     <<Eq(p, Forall(<<bind_x>>, p))>>,
     <<Eq(Forall(<<bind_x>>, p), p)>>,
     <<Op("or", <<Forall(<<bind_x, bind_y>>, Eq(var_y, var_y)),
                 Forall(<<bind_y>>, Eq(var_y, var_y))>>)>>,
     <<Eq(Forall(<<bind_x, bind_y>>, Eq(var_y, var_y)),
          Forall(<<bind_y>>, Eq(var_y, var_y))), p>>}

InitQntRmUnused ==
    /\ pc = "qnt_rm_unused"
    /\ \/ \E q_1 \in Quantifiers, q_2 \in Quantifiers,
             bs_1 \in RmBindings \ {<<>>}, bs_2 \in RmBindings,
             t \in RmBodies, u \in {Eq(var_x, var_z), Eq(var_y, var_y)} :
               clause = QntRmUnusedClause(q_1, bs_1, t, q_2, bs_2, u)
       \/ clause \in QntRmUnusedOtherClauses
    /\ premises = <<>>
    /\ result = "pending"
    /\ IdleResolution
    /\ IdleWalker

ApplyQntRmUnused ==
    /\ pc = "qnt_rm_unused"
    /\ result' = qnt_rm_unused(clause, premises, <<>>)
    /\ pc' = "done"
    /\ UNCHANGED <<clause, premises, resolutionVars, walkerVars>>

SpecQntRmUnused == InitQntRmUnused /\ [][ApplyQntRmUnused]_vars

(* Claims about qnt_rm_unused *)

\* The conclusion is the single literal (= (Q b body) (Q' b' body')).
IsQntRmUnusedClause(cl) ==
    /\ Len(cl) = 1 /\ IsEq(cl[1])
    /\ cl[1].args[1].kind = "quant"
    /\ cl[1].args[2].kind = "quant"

\* The variable named n occurs free in t.
RECURSIVE OccursFree(_, _)
OccursFree(n, t) ==
    IF t.kind = "var" THEN t.name = n
    ELSE IF t.kind = "quant"
         THEN /\ \A i \in 1..Len(t.bindings) : t.bindings[i][1] # n
              /\ OccursFree(n, t.args[1])
    ELSE \E i \in 1..Len(t.args) : OccursFree(n, t.args[i])

\* The subsequence of bs made of the bindings whose variable occurs free in t.
RECURSIVE UsedBindings(_, _)
UsedBindings(bs, t) ==
    IF bs = <<>> THEN <<>>
    ELSE (IF OccursFree(Head(bs)[1], t) THEN <<Head(bs)>> ELSE <<>>)
         \o UsedBindings(Tail(bs), t)

\* C18: qnt_rm_unused accepts (= (Q b body) (Q' b' body')) if and only if
\* Q = Q', body = body', and b' is exactly the subsequence of b made of the
\* bindings whose variable occurs free in body, in the original order.
C18_QntRmUnusedAcceptsIffUsedBindings ==
    (pc = "done" /\ IsQntRmUnusedClause(clause)) =>
        LET left == clause[1].args[1]
            right == clause[1].args[2]
        IN  result = Some <=>
               /\ left.name = right.name
               /\ left.args[1] = right.args[1]
               /\ right.bindings = UsedBindings(left.bindings, left.args[1])

\* (forall (x y z) (= x z)) with the unused y removed is accepted.
C18_Witness ==
    /\ pc = "done" /\ result = Some
    /\ IsQntRmUnusedClause(clause)
    /\ clause[1].args[1].bindings = <<bind_x, bind_y, bind_z>>
    /\ clause[1].args[1].args[1] = Eq(var_x, var_z)
    /\ clause[1].args[2].bindings = <<bind_x, bind_z>>

-----------------------------------------------------------------------------
(* Claims about resolution and the order of its premises                     *)

\* A sequence of literals as a multiset: the number of occurrences of each.
CountOf(lits) ==
    [e \in {lits[i] : i \in 1..Len(lits)} |-> Cardinality({i \in 1..Len(lits) : lits[i] = e})]

Without(lits, i, j) ==
    [k \in 1..(Len(lits) - 2) |->
        LET skipped == {m \in 1..Len(lits) : m # i /\ m # j}
        IN  lits[CHOOSE m \in skipped : Cardinality({l \in skipped : l < m}) = k - 1]]

\* Positions of two complementary literals: t with n and with n + 1 negations.
Complementary(lits) ==
    {ij \in (1..Len(lits)) \X (1..Len(lits)) :
        /\ CoreTerm(lits[ij[1]]) = CoreTerm(lits[ij[2]])
        /\ NegationCount(lits[ij[2]]) = NegationCount(lits[ij[1]]) + 1}

\* The resolvents of a multiset of literals: what is left when complementary
\* literals have been cancelled pair by pair until no pair remains.
RECURSIVE Resolvents(_)
Resolvents(lits) ==
    IF Complementary(lits) = {} THEN {CountOf(lits)}
    ELSE UNION {Resolvents(Without(lits, ij[1], ij[2])) : ij \in Complementary(lits)}

UniqueResolvent(lits) == Cardinality(Resolvents(lits)) = 1

PremiseOrders(prem) ==
    {[i \in 1..Len(prem) |-> prem[perm[i]]] : perm \in Permutations(1..Len(prem))}

\* C19: the verdict of resolution does not depend on the order of its premises
\* whenever the multiset of premise literals yields a unique resolvent: the
\* rule returns the same verdict for every permutation of such a premise list
\* and every conclusion clause.
C19_VerdictIndependentOfPremiseOrder ==
    (pc = "done" /\ UniqueResolvent(PremiseLiterals(premises))) =>
        \A reordered \in PremiseOrders(premises) :
            resolution(clause, reordered, <<>>) = result

\* What the code holds to: the same when, moreover, no literal occurs twice
\* among the premise literals.
ResolutionOrderIndependentWithoutRepeats ==
    (/\ pc = "done"
     /\ UniqueResolvent(PremiseLiterals(premises))
     /\ ~HasRepeatedLiteral(PremiseLiterals(premises))) =>
        \A reordered \in PremiseOrders(premises) :
            resolution(clause, reordered, <<>>) = result

-----------------------------------------------------------------------------
(* The rule registry looked up by a step's rule name, and the rule called    *)

\* The names of the table of get_rule, and names that are not in it.
RegistryNames ==
    {"not_not", "equiv_pos1", "equiv_pos2", "eq_reflexive", "eq_transitive",
     "eq_congruent", "eq_congruent_pred", "distinct_elim", "th_resolution",
     "resolution", "and", "or", "ite1", "ite2", "ite_intro", "contraction"}
OtherNames == {"", "trust_me", "RESOLUTION", "th_res", "eq_congruent_p", "resolution "}

RegistryClauses ==
    {<<>>, <<q>>, <<p, q>>, <<p>>,
     <<Neq(a, b), Eq(App(f1, <<a>>), App(f1, <<b>>))>>,
     <<Neq(a, b), Eq(App(f1, <<b>>), App(f1, <<a>>))>>,
     <<Neq(a, b), Eq(App(f1, <<a>>), App(f1, <<a>>))>>,
     <<Neq(a, b), Neq(b, c), Eq(a, c)>>,
     <<Eq(a, a)>>}
RegistryPremises ==
    {<<>>,
     <<Assume(Not(p)), Step(<<p, q>>, "or", <<0>>)>>,
     <<Assume(p), Assume(Not(p))>>,
     <<Assume(or_pq)>>,
     <<Step(<<p, p, q>>, "trust_me", <<>>)>>}

InitRegistry ==
    /\ pc = "get_rule"
    /\ \E cl \in RegistryClauses, name \in RegistryNames \cup OtherNames :
          /\ proof = <<Step(cl, name, <<>>)>>
          /\ clause = cl
    /\ premises \in RegistryPremises
    /\ idx = 0
    /\ verdict = "unset"
    /\ invoked = <<>>
    /\ skip_unknown_rules = FALSE
    /\ result = "pending"
    /\ IdleResolution

\* get_rule(rule_name) is None
RegistryNone ==
    /\ pc = "get_rule"
    /\ get_rule(proof[1].rule) = ""
    /\ result' = "unknown"
    /\ pc' = "done"
    /\ UNCHANGED <<clause, premises, resolutionVars, walkerVars>>

\* get_rule(rule_name) is Some(rule): the rule is called
RegistryCall ==
    /\ pc = "get_rule"
    /\ get_rule(proof[1].rule) # ""
    /\ result' = apply_rule(get_rule(proof[1].rule), clause, premises, <<>>)
    /\ pc' = "done"
    /\ UNCHANGED <<clause, premises, resolutionVars, walkerVars>>

NextRegistry == RegistryNone \/ RegistryCall

SpecRegistry == InitRegistry /\ [][NextRegistry]_vars

(* Claims about the registry *)

\* A name with its alias exchanged.
Alias(name) ==
    CASE name = "th_resolution" -> "resolution"
      [] name = "resolution" -> "th_resolution"
      [] name = "eq_congruent_pred" -> "eq_congruent"
      [] name = "eq_congruent" -> "eq_congruent_pred"
      [] OTHER -> name

\* The outcome of the step under a rule name.
OutcomeUnder(name) ==
    IF get_rule(name) = "" THEN "unknown"
    ELSE apply_rule(get_rule(name), clause, premises, <<>>)

\* C20: th_resolution is the same rule as resolution and eq_congruent_pred
\* the same rule as eq_congruent, so a step keeps its verdict when its rule
\* name is replaced by the alias; get_rule returns a rule for every registered
\* name and none for any other name.
C20_AliasesKeepTheVerdict ==
    pc = "done" =>
        /\ result = OutcomeUnder(Alias(proof[1].rule))
        /\ proof[1].rule \in {"th_resolution", "resolution"} =>
              result = resolution(clause, premises, <<>>)
        /\ proof[1].rule \in {"eq_congruent_pred", "eq_congruent"} =>
              result = eq_congruent(clause, premises, <<>>)
        /\ result = "unknown" <=> proof[1].rule \notin RegistryNames

\* A th_resolution step was accepted.
C20_Witness ==
    /\ pc = "done" /\ result = Some
    /\ proof[1].rule = "th_resolution"
    /\ premises # <<>>

-----------------------------------------------------------------------------
(* The walker under the two modes of lib.rs's check                          *)

\* get_rule returns None and skip_unknown_rules is set: the step is passed
\* over, no rule is called and the loop goes on with the next command.
CheckSkipUnknownRule ==
    /\ pc = "check" /\ idx < Len(proof)
    /\ current.kind = "step"
    /\ get_rule(current.rule) = ""
    /\ skip_unknown_rules
    /\ idx' = idx + 1
    /\ UNCHANGED <<pc, proof, verdict, invoked, skip_unknown_rules, ruleVars, resolutionVars>>

\* check(problem_path, proof_path, skip_unknown_rules, _): the flag is the caller's.
InitModes ==
    /\ pc = "check"
    /\ proof \in SeqsUpTo(WalkerCommands, MaxProofLen)
    /\ idx = 0
    /\ verdict = "unset"
    /\ invoked = <<>>
    /\ skip_unknown_rules \in BOOLEAN
    /\ IdleRule

NextModes ==
    \/ Next
    \/ CheckSkipUnknownRule

SpecModes == InitModes /\ [][NextModes]_vars

(* Claims about unknown rules *)

\* The command at 0-based index k of prf is a step whose rule name is not registered.
UnknownRuleStep(prf, k) ==
    /\ k < Len(prf)
    /\ prf[k + 1].kind = "step"
    /\ get_rule(prf[k + 1].rule) = ""

\* No rule invocation was recorded for an unknown-rule step, and a false
\* verdict was not returned at one.
UnknownRuleNeverReported ==
    /\ \A n \in 1..Len(invoked) : ~UnknownRuleStep(proof, invoked[n].index)
    /\ verdict = "false" => ~UnknownRuleStep(proof, idx)

\* What the walker does at an unknown-rule step: with the flag off it aborts
\* with no verdict, with the flag on it moves to the next command and neither
\* calls a rule nor sets a verdict.
UnknownRuleAbortsOrSkips ==
    (pc = "check" /\ UnknownRuleStep(proof, idx)) =>
        IF skip_unknown_rules
        THEN /\ pc' = "check" /\ idx' = idx + 1
             /\ verdict' = verdict /\ invoked' = invoked
        ELSE /\ pc' = "panic"
             /\ verdict' = "unset" /\ invoked' = invoked

\* C21: a step that names an unknown rule is never reported as accepted or
\* rejected by a rule: in strict mode checking aborts without a verdict, in
\* lenient mode the step is skipped and checking continues with the next command.
C21_UnknownRuleAbortsOrIsSkipped ==
    []UnknownRuleNeverReported /\ [][UnknownRuleAbortsOrSkips]_vars

\* In lenient mode an unknown-rule step was skipped, a later step was handed
\* to its rule and the walk ended with a verdict.
C21_Witness ==
    /\ pc = "done" /\ skip_unknown_rules
    /\ \E k \in 0..(Len(proof) - 1) :
          /\ UnknownRuleStep(proof, k)
          /\ \E n \in 1..Len(invoked) : invoked[n].index > k

-----------------------------------------------------------------------------
(* Claims about the order of the walk *)

\* Every recorded invocation is for a visited command, comes after an accepted
\* invocation of every Step command below it, and only the last one may be a
\* rejection.
InvokedInProofOrder ==
    \A n \in 1..Len(invoked) :
        /\ invoked[n].index <= idx
        /\ proof[invoked[n].index + 1].kind = "step"
        /\ \A m \in 1..(n - 1) :
              invoked[m].index < invoked[n].index /\ invoked[m].outcome = Some
        /\ \A j \in 0..(invoked[n].index - 1) :
              proof[j + 1].kind = "step" => \E m \in 1..(n - 1) : invoked[m].index = j

\* A rejection and the verdict false come together, at the rejected step, and
\* end the walk.
RejectionIsFinal ==
    /\ (\E n \in 1..Len(invoked) : invoked[n].outcome = None) <=> verdict = "false"
    /\ verdict = "false" =>
          /\ pc = "done"
          /\ invoked[Len(invoked)] =
                 [index |-> idx, premises |-> proof[idx + 1].premises, outcome |-> None]

\* The commands are visited one by one and a rule is invoked for the command
\* being visited only; after the verdict false nothing happens any more.
WalkIsSequential ==
    /\ idx' \in {idx, idx + 1}
    /\ invoked' # invoked =>
          /\ Len(invoked') = Len(invoked) + 1
          /\ invoked'[Len(invoked')].index = idx
    /\ verdict = "false" => (pc' = pc /\ idx' = idx /\ invoked' = invoked /\ verdict' = verdict)

\* C22: the walker invokes rules strictly in proof order: the rule of the step
\* at index k is invoked only after every command below k was visited and every
\* earlier Step was accepted; once a step is rejected the verdict is false and
\* no rule is invoked, and no unknown-rule abort occurs, for any later command.
C22_RulesInvokedInProofOrder ==
    [](InvokedInProofOrder /\ RejectionIsFinal) /\ [][WalkIsSequential]_vars

\* An accepted step, then a rejected one, with a further step behind it that
\* was never handed to a rule.
C22_Witness ==
    /\ pc = "done" /\ verdict = "false"
    /\ Len(invoked) = 2 /\ idx = 1
    /\ Len(proof) = 3 /\ proof[3].kind = "step"

-----------------------------------------------------------------------------
(* Claims about the premises handed to a rule *)

\* The step commands visited so far: those below idx, and the one at idx once
\* the walk has stopped there.
VisitedSteps ==
    {k \in 0..(Len(proof) - 1) :
        /\ proof[k + 1].kind = "step"
        /\ k < idx \/ (k = idx /\ pc # "check")}

PremisesInsideTheProof ==
    /\ \A n \in 1..Len(invoked) :
          \A i \in 1..Len(invoked[n].premises) : invoked[n].premises[i] < Len(proof)
    /\ verdict # "unset" => \A k \in VisitedSteps : InRange(proof[k + 1], proof)

\* The walk ended with the verdict true over a step that cites itself as its
\* only premise.
SelfCitingStepAccepted ==
    /\ pc = "done" /\ verdict = "true"
    /\ \E k \in VisitedSteps : proof[k + 1].premises = <<k>>

-----------------------------------------------------------------------------
(* Claims about the scan of eq_transitive *)

\* C24: the greedy first-match scan of eq_transitive never needs to
\* backtrack: whenever the negated equalities of the clause can be arranged,
\* each read in either direction, into a chain from t to u that uses each of
\* them exactly once, the clause is accepted, whatever order they are listed
\* in and whichever side of each matches first.
C24_GreedyScanFindsEveryFullChain ==
    (/\ pc = "done"
     /\ EqTransitiveShape(clause)
     /\ ChainThroughAll(clause, ConclusionLeft(clause), ConclusionRight(clause),
                        1..(Len(clause) - 1)))
        => result = Some

\* A chain of three negated equalities listed out of order, two of them
\* written backwards, was accepted.
C24_Witness ==
    /\ pc = "done" /\ result = Some
    /\ clause = <<Neq(c, b), Neq(c, a), Neq(b, a), Eq(a, a)>> \/
       clause = <<Neq(a, c), Neq(b, a), Neq(c, b), Eq(a, b)>>

\* The clause cl with its literals before the last one listed in the order pi.
PermuteFront(cl, pi) ==
    [i \in 1..Len(cl) |-> IF i < Len(cl) THEN cl[pi[i]] ELSE cl[i]]

\* C25: the verdict of eq_transitive is invariant under every permutation of
\* the first n-1 literals of the clause, the last literal staying in place.
C25_VerdictInvariantUnderPermutation ==
    pc = "done" =>
        \A pi \in Permutations(1..(Len(clause) - 1)) :
            eq_transitive(PermuteFront(clause, pi), premises, <<>>) = result

\* The verdict is invariant under these permutations for every clause whose
\* negated equalities all take part in one chain from t to u.
PermutationInvariantOnFullChains ==
    (/\ pc = "done"
     /\ EqTransitiveShape(clause)
     /\ ChainThroughAll(clause, ConclusionLeft(clause), ConclusionRight(clause),
                        1..(Len(clause) - 1)))
        => \A pi \in Permutations(1..(Len(clause) - 1)) :
               eq_transitive(PermuteFront(clause, pi), premises, <<>>) = result

-----------------------------------------------------------------------------
(* Claims about the working clause of resolution *)

\* C26: in resolution, after any prefix of the premise literals has been
\* processed, the working set never holds both (n, t) and (n + 1, t) for the
\* same inner term t: two entries that would cancel are never both there.
C26_NoAdjacentNegationLevels ==
    \A entry \in working_clause : <<entry[1] + 1, entry[2]>> \notin working_clause

\* The working set holds one inner term at two negation levels, two apart,
\* after a prefix of the premise literals.
C26_Witness ==
    /\ pc = "resolution"
    /\ <<cmd_i, term_j>> # advance(premises, 1, 1)
    /\ \E entry \in working_clause : <<entry[1] + 2, entry[2]>> \in working_clause

-----------------------------------------------------------------------------
(* Claims about the verdict of distinct_elim *)

\* rhs is a conjunction with fewer than n(n-1)/2 conjuncts, each of them the
\* inequality of the pair of xs at its position, in either order.
IsTruncatedExpansion(xs, rhs) ==
    LET n == Len(xs)
    IN  /\ rhs.kind = "op" /\ rhs.name = "and"
        /\ Len(rhs.args) < (n * (n - 1)) \div 2
        /\ \A i, j \in 1..n :
              (i < j /\ PairPosition(i, j, n) <= Len(rhs.args)) =>
                  rhs.args[PairPosition(i, j, n)] \in
                      {Not(Eq(xs[i], xs[j])), Not(Eq(xs[j], xs[i]))}

\* C27: distinct_elim returns a binary verdict on every conclusion
\* (= (distinct x_1 ... x_n) rhs) and never aborts; with n >= 3 non-Boolean
\* arguments and an rhs conjunction with fewer than n(n-1)/2 conjuncts, the
\* present ones matching, it returns failure instead of reading past the end.
C27_DistinctElimNeverAborts ==
    (pc = "done" /\ IsDistinctElimClause(clause)) =>
        /\ result \in {Some, None}
        /\ (/\ Len(DistinctArgs(clause)) >= 3
            /\ ~AllOfSortBool(DistinctArgs(clause))
            /\ IsTruncatedExpansion(DistinctArgs(clause), Rhs(clause))) => result = None

\* What the code does: it aborts exactly on the truncated expansions of three
\* or more non-Boolean arguments, and returns a verdict on every other clause.
DistinctElimAbortsOnTruncatedExpansions ==
    pc = "done" =>
        (result = Panic <=>
            /\ IsDistinctElimClause(clause)
            /\ Len(DistinctArgs(clause)) >= 3
            /\ ~AllOfSortBool(DistinctArgs(clause))
            /\ IsTruncatedExpansion(DistinctArgs(clause), Rhs(clause)))

====
